---- MODULE Spec2Model ----
(***************************************************************************)
(* A model of actions-yaml: the template memory counter and depth guard,   *)
(* the expression evaluator's bytes-by-depth memory, and the just-in-time  *)
(* template unraveler.                                                     *)
(***************************************************************************)
EXTENDS Integers, Sequences, FiniteSets, TLC

(***************************************************************************)
(* Program constants                                                       *)
(***************************************************************************)
MIN_OBJECT_SIZE == 24

POINTER_SIZE == 8

STRING_BASE_OVERHEAD == 26

INT32_MAX == 2147483647

DEFAULT_MAX_MEMORY == 1048576

DEFAULT_MAX_DEPTH == 50

(***************************************************************************)
(* Bounds of the model                                                     *)
(***************************************************************************)
\* the largest amount a caller of the memory counter adds or subtracts, in pointers
MaxAmountUnits == 3

\* adds to a counter configured without a limit stop at this many minimal objects
MaxUnlimitedObjects == 5

\* the largest maximum depth a template memory is configured with
MaxMaxDepth == 3

\* the deepest expression node the evaluator memory is charged for
MaxEvalLevel == 2

\* the number of charges of one expression evaluation
MaxEvalCharges == 4

\* the byte limit of an unraveler's memory where it has one, in minimal objects
MaxBytesObjects == 20

(***************************************************************************)
(* Template tokens: a tagged tree.  kids holds the items of a sequence and *)
(* the <<key, value>> pairs of a mapping; lit the text of a literal or of  *)
(* an expression.                                                          *)
(***************************************************************************)
Tok(type, lit, kids) == [type |-> type, lit |-> lit, kids |-> kids]

NullTok == Tok("null", "", <<>>)

BoolTok(s) == Tok("boolean", s, <<>>)

NumTok(s) == Tok("number", s, <<>>)

StrTok(s) == Tok("string", s, <<>>)

SeqTok(items) == Tok("sequence", "", items)

MapTok(pairs) == Tok("mapping", "", pairs)

ExprTok(e) == Tok("basic-expression", e, <<>>)

InsertTok == Tok("insert-expression", "insert", <<>>)

isLiteral(t) == t.type \in {"null", "boolean", "number", "string"}

isScalar(t) == t.type \notin {"sequence", "mapping"}

\* a pair of a mapping
Pair(k, v) == [key |-> k, value |-> v]

RECURSIVE traverse(_, _)
RECURSIVE traverseKids(_, _, _)
\* TemplateToken.traverse: all tokens depth first, mapping keys left out when omitKeys
traverse(value, omitKeys) ==
  IF value.type \in {"sequence", "mapping"}
  THEN <<value>> \o traverseKids(value, 1, omitKeys)
  ELSE <<value>>

\* TraversalState.moveNext over the children of a sequence or mapping, from child i on
traverseKids(parent, i, omitKeys) ==
  IF i > Len(parent.kids) THEN <<>>
  ELSE IF parent.type = "sequence"
       THEN traverse(parent.kids[i], omitKeys) \o traverseKids(parent, i + 1, omitKeys)
       ELSE (IF omitKeys THEN <<>> ELSE <<parent.kids[i].key>>)
            \o traverse(parent.kids[i].value, omitKeys)
            \o traverseKids(parent, i + 1, omitKeys)

calculateStringBytes(value) == STRING_BASE_OVERHEAD + Len(value) * 2

\* the bytes calculateTokenBytes adds for one item of the traversal
ItemBytes(item) ==
  IF item.type \in {"string", "basic-expression"}
  THEN MIN_OBJECT_SIZE + calculateStringBytes(item.lit)
  ELSE MIN_OBJECT_SIZE

RECURSIVE SumBytes(_, _)
SumBytes(items, from) ==
  IF from > Len(items) THEN 0 ELSE ItemBytes(items[from]) + SumBytes(items, from + 1)

\* TemplateMemory.calculateTokenBytes: its flag is handed to traverse as omitKeys
calculateTokenBytes(value, flag) == SumBytes(traverse(value, flag), 1)


(***************************************************************************)
(* State                                                                   *)
(***************************************************************************)
VARIABLES
  maxBytes,       \* TemplateMemory.maxBytes, as given to the constructor
  maxDepth,       \* TemplateMemory.maxDepth
  currentBytes,   \* MemoryCounter._currentBytes
  currentDepth,   \* TemplateMemory._currentDepth
  thrown,         \* the error the last operation threw to its caller, or "none"
  lastOp,         \* the last operation called
  lastAmount,     \* the bytes the last operation asked to add or subtract
  prevBytes,      \* currentBytes before the last operation
  prevDepth       \* currentDepth before the last operation

memVars == <<maxBytes, maxDepth, currentBytes, currentDepth, thrown, lastOp, lastAmount,
             prevBytes, prevDepth>>

VARIABLES
  evMaxBytes,        \* EvaluationMemory._maxBytes
  evDepths,          \* EvaluationMemory._depths; depth d is kept at index d + 1
  evMaxActiveDepth,  \* EvaluationMemory._maxActiveDepth
  evTotalBytes,      \* EvaluationMemory._totalBytes
  evThrown,          \* the error the evaluation threw, or "none"
  evLevel,           \* the level of the node evaluated last, -1 before the first
  evCount            \* the number of nodes evaluated

evalVars == <<evMaxBytes, evDepths, evMaxActiveDepth, evTotalBytes, evThrown, evLevel, evCount>>

VARIABLES
  template,     \* the template handed to the TemplateUnraveler
  env,          \* expression text -> outcome of tree.evaluateTree for it
  ctorRemoveBytes, \* the removeBytes handed to the TemplateUnraveler
  initialBytes, \* currentBytes before the TemplateUnraveler was created
  phase,        \* "idle": no unraveler; "new": before its constructor; "reading"; "ended"
  stack,        \* the reader states from the root to TemplateUnraveler._current
  expanded,     \* TemplateUnraveler._expanded
  errors,       \* TemplateContext.errors: the kinds of the validation errors recorded
  emitted,      \* the events returned to the caller so far
  evalOk,       \* the number of expression evaluations that returned
  evalFailed,   \* the number of expression evaluations that threw
  allExpand     \* no allow... call so far had expand = false, and nothing was skipped

unravelVars == <<template, env, ctorRemoveBytes, initialBytes, phase, stack, expanded, errors,
                 emitted, evalOk, evalFailed, allExpand>>

VARIABLES
  objectEvents, \* the parse events of the ObjectReader handed to readTemplate
  readerType,   \* the name of the definition the template is read against
  readerPos,    \* the ObjectReader's position: the index of its current event
  readerValue,  \* the token readTemplate returned
  readerPhase,  \* "new" before readTemplate and "read" after it
  readerCalls   \* the history of readTemplate: its calls of the ObjectReader that
                \* consumed an event or threw, the return of readValue and the catch

readerVars == <<objectEvents, readerType, readerPos, readerValue, readerPhase, readerCalls>>

VARIABLES
  exprNode,     \* the expression handed to the evaluator
  exprResult,   \* the value its evaluation returned
  exprTrace,    \* the operands evaluated, in the order of their evaluation
  exprPhase     \* "new" before the evaluation and "evaluated" after it

exprVars == <<exprNode, exprResult, exprTrace, exprPhase>>

VARIABLES
  lastToken,      \* the token handed to the last addToken or subtractToken
  lastFlag        \* the flag handed to it
tokenVars == <<lastToken, lastFlag>>

VARIABLES
  exprText,       \* the expression handed to createExpressionTree
  lexer,          \* the LexicalAnalyzer
  parser,         \* the ParseContext
  parsePhase      \* where createExpressionTree is
parseVars == <<exprText, lexer, parser, parsePhase>>

VARIABLES
  argv,           \* the arguments a command line tool is started with
  cli             \* what the tool did
cliVars == <<argv, cli>>

VARIABLES
  collector,      \* a TemplateValidationErrors
  formatter,      \* a scalar read by parseScalar and the evaluation of its expression
  mappingToken,   \* a MappingToken
  schemaDef       \* a definition under construction
unitVars == <<collector, formatter, mappingToken, schemaDef>>

restVars == <<parseVars, cliVars, unitVars>>

vars == <<memVars, evalVars, unravelVars, readerVars, exprVars, tokenVars, restVars>>

(***************************************************************************)
(* MemoryCounter and TemplateMemory.  An operation works on a record m     *)
(* with the fields bytes, depth and exc; once exc is set (an error was     *)
(* thrown) the statements that follow are not executed.                    *)
(***************************************************************************)
\* the constructor of MemoryCounter: no limit given means max int32
MemoryCounterMax(max) == IF max > 0 THEN max ELSE INT32_MAX

counterMaxBytes == MemoryCounterMax(maxBytes)

\* a tryAddAmount that stores the new total before it compares it with the maximum
tryAddAmountCommitFirst(m, bytes) ==
  [ok |-> m.bytes + bytes <= counterMaxBytes, m |-> [m EXCEPT !.bytes = m.bytes + bytes]]

\* MemoryCounter.tryAddAmount: stores the new total unless it exceeds the maximum
tryAddAmount(m, bytes) ==
  IF m.bytes + bytes > counterMaxBytes
  THEN [ok |-> FALSE, m |-> m]
  ELSE [ok |-> TRUE, m |-> [m EXCEPT !.bytes = m.bytes + bytes]]

\* MemoryCounter.addAmount
addAmount(m, bytes) ==
  IF m.exc # "none" THEN m
  ELSE LET r == tryAddAmount(m, bytes)
       IN  IF r.ok THEN r.m ELSE [r.m EXCEPT !.exc = "memory"]

\* MemoryCounter.subtractAmount
subtractAmount(m, bytes) ==
  IF m.exc # "none" THEN m
  ELSE IF bytes > m.bytes THEN [m EXCEPT !.exc = "underflow"]
  ELSE [m EXCEPT !.bytes = m.bytes - bytes]

\* MemoryCounter.addString
addString(m, value) == addAmount(m, calculateStringBytes(value))

\* MemoryCounter.addMinObjectSize
addMinObjectSize(m) == addAmount(m, MIN_OBJECT_SIZE)

\* MemoryCounter.addPointer
addPointer(m) == addAmount(m, POINTER_SIZE)

\* TemplateMemory.addToken
addToken(m, value, flag) == addAmount(m, calculateTokenBytes(value, flag))

\* TemplateMemory.subtractToken
subtractToken(m, value, flag) == subtractAmount(m, calculateTokenBytes(value, flag))

\* an incrementDepth that fails one push too late
incrementDepthLate(m) ==
  IF m.exc # "none" THEN m
  ELSE IF m.depth > maxDepth THEN [m EXCEPT !.exc = "depth"]
  ELSE [m EXCEPT !.depth = m.depth + 1]

\* TemplateMemory.incrementDepth
incrementDepth(m) ==
  IF m.exc # "none" THEN m
  ELSE IF m.depth + 1 > maxDepth THEN [m EXCEPT !.exc = "depth"]
  ELSE [m EXCEPT !.depth = m.depth + 1]

\* TemplateMemory.decrementDepth
decrementDepth(m) ==
  IF m.exc # "none" THEN m
  ELSE IF m.depth = 0 THEN [m EXCEPT !.exc = "depth-underflow"]
  ELSE [m EXCEPT !.depth = m.depth - 1]

(***************************************************************************)
(* EvaluationMemory: the evaluator's bytes by depth.  An operation works   *)
(* on a record e with the fields depths, maxActive, total and exc.         *)
(***************************************************************************)
\* the constructor of EvaluationContext: no limit given means 1 mb
EvaluationMaxMemory(max) == IF max = 0 THEN DEFAULT_MAX_MEMORY ELSE max

RECURSIVE evTrimKeepingTotal(_, _)
\* a trim that resets the columns and leaves the total as it is
evTrimKeepingTotal(e, depth) ==
  IF e.exc # "none" \/ ~(e.maxActive > depth) THEN e
  ELSE evTrimKeepingTotal([e EXCEPT !.depths[e.maxActive + 1] = 0,
                                    !.maxActive = e.maxActive - 1], depth)

RECURSIVE evTrim(_, _)
\* the "Trim depth" loop of EvaluationMemory.addAmount
evTrim(e, depth) ==
  IF e.exc # "none" \/ ~(e.maxActive > depth) THEN e
  ELSE LET bytes == e.depths[e.maxActive + 1]
       IN  IF bytes > 0
           THEN IF bytes > e.total
                THEN [e EXCEPT !.exc = "underflow"]
                ELSE evTrim([e EXCEPT !.total = e.total - bytes,
                                      !.depths[e.maxActive + 1] = 0,
                                      !.maxActive = e.maxActive - 1], depth)
           ELSE evTrim([e EXCEPT !.maxActive = e.maxActive - 1], depth)

\* the "Grow the depths" step of EvaluationMemory.addAmount
evGrow(e, depth) ==
  IF depth > e.maxActive
  THEN [e EXCEPT !.depths = [i \in 1..(IF Len(e.depths) <= depth THEN depth + 1 ELSE Len(e.depths)) |->
                               IF i <= Len(e.depths) THEN e.depths[i] ELSE 0],
                 !.maxActive = depth]
  ELSE e

\* the end of EvaluationMemory.addAmount: add to the depth and to the total, then check the maximum
evCharge(e, depth, bytes) ==
  LET added == [e EXCEPT !.depths[depth + 1] = e.depths[depth + 1] + bytes,
                         !.total = e.total + bytes]
  IN  IF added.total > evMaxBytes THEN [added EXCEPT !.exc = "memory"] ELSE added

\* EvaluationMemory.addAmount
evAddAmount(e, depth, bytes, trimDepth) ==
  IF e.exc # "none" THEN e
  ELSE LET trimmed == IF trimDepth THEN evTrim(e, depth) ELSE e
       IN  IF trimmed.exc # "none" THEN trimmed
           ELSE evCharge(evGrow(trimmed, depth), depth, bytes)

\* the accounting of AbstractExpressionNode.evaluate for a node at level: the core
\* result, then the conversion result when the value was converted (raw)
evaluateCharges(e, level, coreBytes, trimDepth, raw, conversionBytes) ==
  LET core == evAddAmount(e, level, coreBytes, trimDepth)
  IN  IF raw THEN evAddAmount(core, level, conversionBytes, FALSE) ELSE core

\* no evaluation is going on
EvalIdle ==
  /\ evMaxBytes = 0
  /\ evDepths = <<>>
  /\ evMaxActiveDepth = -1
  /\ evTotalBytes = 0
  /\ evThrown = "none"
  /\ evLevel = -1
  /\ evCount = 0

\* no template is being read
ReaderIdle ==
  /\ objectEvents = <<>>
  /\ readerType = ""
  /\ readerPos = 0
  /\ readerValue = NullTok
  /\ readerPhase = "idle"
  /\ readerCalls = <<>>

\* no token was handed to the template memory
TokenIdle ==
  /\ lastToken = NullTok
  /\ lastFlag = FALSE

\* no collector, scalar, mapping or definition is at work
UnitIdle ==
  /\ collector = <<>>
  /\ formatter = <<>>
  /\ mappingToken = <<>>
  /\ schemaDef = <<>>

\* no expression is being parsed and no command line tool runs
RestIdle ==
  /\ UnitIdle
  /\ exprText = <<>>
  /\ lexer = <<>>
  /\ parser = <<>>
  /\ parsePhase = "idle"
  /\ argv = <<>>
  /\ cli = <<>>

\* no expression is being evaluated
ExprIdle ==
  /\ exprNode = <<>>
  /\ exprResult = <<>>
  /\ exprTrace = <<>>
  /\ exprPhase = "idle"

\* no unraveler exists
UnravelIdle ==
  /\ template = NullTok
  /\ env = <<>>
  /\ ctorRemoveBytes = 0
  /\ initialBytes = 0
  /\ phase = "idle"
  /\ stack = <<>>
  /\ expanded = FALSE
  /\ errors = <<>>
  /\ emitted = <<>>
  /\ evalOk = 0
  /\ evalFailed = 0
  /\ allExpand = TRUE

(***************************************************************************)
(* TemplateUnraveler.  The reader states from the root down to _current    *)
(* are the frames of a stack; a state's parent is the frame below it.  An  *)
(* operation works on a record u with the fields of m and stack, expanded, *)
(* errors (the validation errors recorded on the context), evalOk and      *)
(* evalFailed (the expression evaluations that returned and that threw).   *)
(***************************************************************************)
OPEN_EXPRESSION == "${{"

CLOSE_EXPRESSION == "}}"

\* a reader state as its constructor leaves it
NewFrame(value, removeBytes) ==
  [value |-> value, isStart |-> TRUE, index |-> 0, isKey |-> FALSE,
   removeBytes |-> removeBytes]

\* SequenceState.isEnd and MappingState.isEnd
collectionIsEnd(f) == ~f.isStart /\ f.index >= Len(f.value.kids)

\* BasicExpressionState.isEnd and InsertExpressionState.isEnd
expressionIsEnd(f) == ~f.isStart

\* TemplateContext.error: the error is added to the context's errors
contextError(u, err) == [u EXCEPT !.errors = Append(@, err)]

\* the charges of a reader state's constructor (createState's checks included)
createCharges(u, value, removeBytes) ==
  IF u.exc # "none" THEN u
  ELSE IF value.type = "insert-expression" /\ removeBytes > 0
  THEN [u EXCEPT !.exc = "unexpected-remove-bytes"]
  ELSE incrementDepth(addToken(u, value, FALSE))

\* a remove() that leaves the removeBytes it was constructed with charged
removeChargesKeepOverhead(u, value, removeBytes) ==
  decrementDepth(subtractToken(u, value, FALSE))

\* what a reader state's remove() gives back
removeCharges(u, value, removeBytes) ==
  LET released == decrementDepth(subtractToken(u, value, FALSE))
  IN  IF value.type # "insert-expression" /\ removeBytes > 0
      THEN subtractAmount(released, removeBytes)
      ELSE released

\* ReaderState.createState with the frame at base as parent; the state made becomes
\* _current where the caller assigns it, which every caller but the skips does
createState(u, base, value, removeBytes) ==
  LET charged == createCharges(u, value, removeBytes)
  IN  IF charged.exc # "none" THEN charged
      ELSE [charged EXCEPT !.stack = SubSeq(u.stack, 1, base) \o <<NewFrame(value, removeBytes)>>]

\* remove() of the state at frame i
remove(u, i) ==
  IF u.exc # "none" THEN u
  ELSE removeCharges(u, u.stack[i].value, u.stack[i].removeBytes)

\* _current = the state at frame i
moveTo(u, i) == IF u.exc # "none" THEN u ELSE [u EXCEPT !.stack = SubSeq(u.stack, 1, i)]

\* SequenceState.next, "Adjust the state"
sequenceAdjust(f) ==
  IF f.isStart THEN [f EXCEPT !.isStart = FALSE] ELSE [f EXCEPT !.index = f.index + 1]

\* MappingState.next, "Adjust the state"
mappingAdjust(f) ==
  IF f.isStart THEN [f EXCEPT !.isStart = FALSE, !.isKey = TRUE]
  ELSE IF f.isKey THEN [f EXCEPT !.isKey = FALSE]
  ELSE [f EXCEPT !.index = f.index + 1, !.isKey = TRUE]

\* the token MappingState.next makes a state for
mappingNextToken(f) ==
  IF f.isKey THEN f.value.kids[f.index + 1].key ELSE f.value.kids[f.index + 1].value

\* _current = sequenceState.next(), for the SequenceState at frame i
sequenceNext(u, i) ==
  IF u.exc # "none" THEN u
  ELSE LET f == sequenceAdjust(u.stack[i])
           v == [u EXCEPT !.stack[i] = f]
       IN  IF ~collectionIsEnd(f)
           THEN createState(v, i, f.value.kids[f.index + 1], 0)
           ELSE moveTo(v, i)

\* _current = mappingState.next(), for the MappingState at frame i
mappingNext(u, i) ==
  IF u.exc # "none" THEN u
  ELSE LET f == mappingAdjust(u.stack[i])
           v == [u EXCEPT !.stack[i] = f]
       IN  IF ~collectionIsEnd(f)
           THEN createState(v, i, mappingNextToken(f), 0)
           ELSE moveTo(v, i)

\* a "Skip the value" that skips nothing
mappingNextKeep(u, i) == u

\* mappingState.next().remove(), "Skip the value": _current is not assigned
mappingNextRemove(u, i) ==
  IF u.exc # "none" THEN u
  ELSE LET f == mappingAdjust(u.stack[i])
           v == [u EXCEPT !.stack[i] = f]
       IN  IF ~collectionIsEnd(f)
           THEN removeCharges(createCharges(v, mappingNextToken(f), 0), mappingNextToken(f), 0)
           ELSE remove(v, i)

RECURSIVE basicExpressionNext(_, _, _, _, _)
RECURSIVE callNext(_, _)
\* _current = expressionState.next(value, isSequenceInsertion, removeBytes), for the
\* BasicExpressionState at frame i: the nested state is created for this.value
basicExpressionNext(u, i, value, isSequenceInsertion, removeBytes) ==
  IF u.exc # "none" THEN u
  ELSE LET v == [u EXCEPT !.stack[i].isStart = FALSE]
           nested == createState(v, i, u.stack[i].value, removeBytes)
       IN  IF isSequenceInsertion THEN callNext(nested, i + 1) ELSE nested

\* nestedState.next() with no arguments, on whichever state class frame j holds;
\* an argument left out is undefined: no sequence insertion, no bytes to remove
callNext(u, j) ==
  IF u.exc # "none" THEN u
  ELSE CASE u.stack[j].value.type = "sequence" -> sequenceNext(u, j)
         [] u.stack[j].value.type = "mapping" -> mappingNext(u, j)
         [] u.stack[j].value.type = "basic-expression" ->
              basicExpressionNext(u, j, NullTok, FALSE, 0)
         [] OTHER -> [u EXCEPT !.exc = "type-error"]

\* BasicExpressionState.end and InsertExpressionState.end
expressionEnd(u, i) == IF u.exc # "none" THEN u ELSE [u EXCEPT !.stack[i].isStart = FALSE]

\* an InsertExpressionState.next that does not skip the mapping start
insertExpressionNextAtStart(u, i, value, removeBytes) ==
  IF u.exc # "none" THEN u
  ELSE createState([u EXCEPT !.stack[i].isStart = FALSE], i, value, removeBytes)

\* _current = insertExpressionState.next(value, removeBytes)
insertExpressionNext(u, i, value, removeBytes) ==
  IF u.exc # "none" THEN u
  ELSE LET v == [u EXCEPT !.stack[i].isStart = FALSE]
       IN  mappingNext(createState(v, i, value, removeBytes), i + 1)

\* the literal InsertExpressionState.toStringToken makes
insertLiteral(t) == StrTok(OPEN_EXPRESSION \o " " \o t.lit \o " " \o CLOSE_EXPRESSION)

\* _current = insertExpressionState.toStringToken()
insertToStringToken(u, i) == createState(u, i - 1, insertLiteral(u.stack[i].value), 0)

(***************************************************************************)
(* Expression evaluation.  The expression tree and the named contexts are  *)
(* not modelled: env gives for the text of each expression the outcome of  *)
(* tree.evaluateTree, a record with fails (the evaluation throws), tok     *)
(* (the result as a token tree) and raw (the result is a template token    *)
(* held as the raw value, not context data).                               *)
(***************************************************************************)
Outcome(tok, raw) == [fails |-> FALSE, tok |-> tok, raw |-> raw]

Failure == [fails |-> TRUE, tok |-> NullTok, raw |-> FALSE]

RECURSIVE chargeEach(_, _, _)
\* the createMappingToken, createSequenceToken, createStringToken and literal charges
\* convertToTemplateToken makes one by one while it walks a context-data result
chargeEach(u, items, from) ==
  IF from > Len(items) THEN u
  ELSE chargeEach(addAmount(u, ItemBytes(items[from])), items, from + 1)

\* BasicExpressionToken.convertToTemplateToken: the charges for the converted result
convertToTemplateToken(u, out) ==
  IF ~isLiteral(out.tok) /\ out.raw
  THEN addToken(u, out.tok, TRUE)
  ELSE chargeEach(u, traverse(out.tok, FALSE), 1)

\* what an evaluate...Token call leaves: caught says the call threw and what, value and
\* bytes are the EvaluateTokenResult
EvaluateResult(u, caught, value, bytes) ==
  [u |-> u, caught |-> caught, value |-> value, bytes |-> bytes]

\* the error of a call that threw is caught by the caller: the charges made stay
Caught(u, err) ==
  EvaluateResult([u EXCEPT !.exc = "none", !.evalFailed = @ + 1], err, NullTok, 0)

Returned(u, before, value) ==
  EvaluateResult([u EXCEPT !.evalOk = @ + 1], "none", value, u.bytes - before.bytes)

\* BasicExpressionToken.evaluateTemplateToken
evaluateTemplateToken(u, expression) ==
  LET out == env[expression.lit]
      converted == convertToTemplateToken(u, out)
  IN  IF out.fails THEN Caught(u, "evaluation")
      ELSE IF converted.exc # "none" THEN Caught(converted, converted.exc)
      ELSE Returned(converted, u, out.tok)

\* BasicExpressionToken.evaluateStringToken
evaluateStringToken(u, expression) ==
  LET out == env[expression.lit]
      value == IF isLiteral(out.tok) THEN StrTok(out.tok.lit) ELSE StrTok(expression.lit)
      reported == IF isLiteral(out.tok) THEN u ELSE contextError(u, "expected-string")
      created == addToken(reported, value, FALSE)
  IN  IF out.fails THEN Caught(u, "evaluation")
      ELSE IF created.exc # "none" THEN Caught(created, created.exc)
      ELSE Returned(created, u, value)

\* BasicExpressionToken.evaluateMappingToken
evaluateMappingToken(u, expression) ==
  LET out == env[expression.lit]
      converted == convertToTemplateToken(u, out)
      isMapping == out.tok.type = "mapping"
      created == IF isMapping THEN converted
                 ELSE addToken(contextError(converted, "expected-mapping"), MapTok(<<>>), FALSE)
  IN  IF out.fails THEN Caught(u, "evaluation")
      ELSE IF converted.exc # "none" THEN Caught(converted, converted.exc)
      ELSE IF created.exc # "none" THEN Caught(created, created.exc)
      ELSE Returned(created, u, IF isMapping THEN out.tok ELSE MapTok(<<>>))

(***************************************************************************)
(* TemplateUnraveler: the expansion handlers, unravel and moveNext.  The   *)
(* current state is the top frame, stack[Len(stack)].                      *)
(***************************************************************************)
\* the templateTokenType of the value of frame i, "undefined" where there is no state
typeAt(u, i) == IF i >= 1 /\ i <= Len(u.stack) THEN u.stack[i].value.type ELSE "undefined"

\* the state at the top of the stack, _current
current(u) == u.stack[Len(u.stack)]

\* sequenceItemBasicExpression after its try/catch around the evaluation, whose outcome is r
sequenceItemMove(r, i) ==
  IF r.caught # "none" THEN expressionEnd(contextError(r.u, r.caught), i)
  ELSE basicExpressionNext(r.u, i, r.value, r.value.type = "sequence", r.bytes)

\* TemplateUnraveler.sequenceItemBasicExpression
sequenceItemBasicExpression(u) ==
  sequenceItemMove(evaluateTemplateToken(u, current(u).value), Len(u.stack))

\* mappingKeyBasicExpression after its try/catch around the evaluation, whose outcome is r
mappingKeyMove(r, i) ==
  IF r.caught # "none"
  THEN mappingNext(mappingNextRemove(remove(contextError(r.u, r.caught), i), i - 1), i - 1)
  ELSE basicExpressionNext(r.u, i, r.value, FALSE, r.bytes)

\* TemplateUnraveler.mappingKeyBasicExpression
mappingKeyBasicExpression(u) ==
  mappingKeyMove(evaluateStringToken(u, current(u).value), Len(u.stack))

\* mappingValueBasicExpression and rootBasicExpression after their try/catch around the
\* evaluation, whose outcome is r: a caught error leaves the empty string as the value
substituteMove(r, i) ==
  IF r.caught # "none"
  THEN basicExpressionNext(contextError(r.u, r.caught), i, StrTok(""), FALSE, 0)
  ELSE basicExpressionNext(r.u, i, r.value, FALSE, r.bytes)

\* TemplateUnraveler.mappingValueBasicExpression
mappingValueBasicExpression(u) ==
  substituteMove(evaluateTemplateToken(u, current(u).value), Len(u.stack))

\* TemplateUnraveler.rootBasicExpression
rootBasicExpression(u) ==
  substituteMove(evaluateTemplateToken(u, current(u).value), Len(u.stack))

\* the try/catch of startMappingInsertion around evaluateMappingToken, whose outcome is e
insertionCatch(e) ==
  IF e.caught # "none"
  THEN EvaluateResult(contextError(e.u, e.caught), "none", MapTok(<<>>), 0)
  ELSE e

\* nestedMapping and removeBytes of startMappingInsertion for the directive's value
insertionMapping(u, nestedValue) ==
  IF nestedValue.type = "mapping" THEN EvaluateResult(u, "none", nestedValue, 0)
  ELSE IF nestedValue.type = "basic-expression"
  THEN insertionCatch(evaluateMappingToken(u, nestedValue))
  ELSE EvaluateResult(contextError(u, "expected-mapping"), "none", MapTok(<<>>), 0)

\* startMappingInsertion once nestedMapping and removeBytes are known, in r
insertionMove(r, i) ==
  IF Len(r.value.kids) > 0
  THEN insertExpressionNext(r.u, i, r.value, r.bytes)
  ELSE expressionEnd(IF r.bytes > 0 THEN subtractAmount(r.u, r.bytes) ELSE r.u, i)

\* the value of the pair the parent MappingState of frame i is at
pairValue(u, i) == u.stack[i - 1].value.kids[u.stack[i - 1].index + 1].value

\* TemplateUnraveler.startMappingInsertion
startMappingInsertion(u) ==
  insertionMove(insertionMapping(u, pairValue(u, Len(u.stack))), Len(u.stack))

\* TemplateUnraveler.endExpression
endExpression(u) ==
  LET i == Len(u.stack)
  IN  IF i = 1 THEN moveTo(remove(u, i), 0)
      ELSE IF typeAt(u, i) = "basic-expression"
      THEN IF typeAt(u, i - 1) = "sequence"
           THEN sequenceNext(remove(u, i), i - 1)
           ELSE callNext(remove(u, i), i - 1)
      ELSE mappingNext(mappingNextRemove(remove(u, i), i - 1), i - 1)

\* TemplateUnraveler.unexpectedState
unexpectedState(u) == [u EXCEPT !.exc = "unexpected-state"]

\* one pass of the loop of unravel over a basic expression state
unravelBasicExpression(u, expand) ==
  LET i == Len(u.stack)
      isStart == u.stack[i].isStart
      parentIsKey == i > 1 /\ u.stack[i - 1].isKey
  IN  IF isStart /\ typeAt(u, i - 1) = "sequence"
      THEN [go |-> expand, u |-> IF expand THEN sequenceItemBasicExpression(u) ELSE u]
      ELSE IF isStart /\ typeAt(u, i - 1) = "mapping" /\ parentIsKey
      THEN [go |-> expand, u |-> IF expand THEN mappingKeyBasicExpression(u) ELSE u]
      ELSE IF isStart /\ typeAt(u, i - 1) = "mapping" /\ ~parentIsKey
      THEN [go |-> expand, u |-> IF expand THEN mappingValueBasicExpression(u) ELSE u]
      ELSE IF isStart /\ i = 1
      THEN [go |-> expand, u |-> IF expand THEN rootBasicExpression(u) ELSE u]
      ELSE IF expressionIsEnd(u.stack[i])
      THEN [go |-> TRUE, u |-> endExpression(u)]
      ELSE [go |-> TRUE, u |-> unexpectedState(u)]

\* one pass of the loop of unravel over a mapping or a sequence state
unravelCollection(u) ==
  LET i == Len(u.stack)
      closesInsertion ==
        IF typeAt(u, i) = "mapping"
        THEN typeAt(u, i - 1) = "insert-expression"
        ELSE typeAt(u, i - 1) = "basic-expression" /\ typeAt(u, i - 2) = "sequence"
  IN  IF collectionIsEnd(u.stack[i]) /\ closesInsertion
      THEN [go |-> TRUE, u |-> moveTo(remove(u, i), i - 1)]
      ELSE IF u.stack[i].isStart \/ collectionIsEnd(u.stack[i])
      THEN [go |-> FALSE, u |-> u]
      ELSE [go |-> TRUE, u |-> unexpectedState(u)]

\* one pass of the loop of unravel over an insert expression state
unravelInsertExpression(u, expand) ==
  LET i == Len(u.stack)
      isStart == u.stack[i].isStart
  IN  IF isStart /\ typeAt(u, i - 1) = "mapping" /\ u.stack[i - 1].isKey
      THEN [go |-> expand, u |-> IF expand THEN startMappingInsertion(u) ELSE u]
      ELSE IF expressionIsEnd(u.stack[i])
      THEN [go |-> TRUE, u |-> endExpression(u)]
      ELSE [go |-> TRUE,
            u |-> insertToStringToken(remove(contextError(u, "directive-not-supported"), i), i)]

\* one pass of the loop of unravel; go is false where the code breaks
unravelPass(u, expand) ==
  IF typeAt(u, Len(u.stack)) = "basic-expression" THEN unravelBasicExpression(u, expand)
  ELSE IF typeAt(u, Len(u.stack)) \in {"mapping", "sequence"} THEN unravelCollection(u)
  ELSE unravelInsertExpression(u, expand)

RECURSIVE unravelLoop(_, _)
RECURSIVE unravelRepeat(_, _)
\* the for (;;) of TemplateUnraveler.unravel
unravelLoop(u, expand) ==
  IF u.exc # "none" \/ u.stack = <<>> \/ isLiteral(current(u).value) THEN u
  ELSE unravelRepeat(unravelPass(u, expand), expand)

\* the end of a pass of the loop: break, or go round again
unravelRepeat(pass, expand) == IF pass.go THEN unravelLoop(pass.u, expand) ELSE pass.u

\* the end of TemplateUnraveler.unravel, reached unless the loop threw: _expanded = expand
unravelDone(r, expand) == IF r.exc # "none" THEN r ELSE [r EXCEPT !.expanded = expand]

\* TemplateUnraveler.unravel
unravel(u, expand) ==
  IF u.exc # "none" \/ u.expanded THEN u ELSE unravelDone(unravelLoop(u, expand), expand)

\* the branch of TemplateUnraveler.moveNext taken for the current state
moveNextBranch(u, skipNestedEvents) ==
  LET i == Len(u.stack)
      cur == current(u)
  IN  IF cur.value.type = "sequence" /\ cur.isStart /\ ~skipNestedEvents
      THEN sequenceNext(u, i)
      ELSE IF cur.value.type = "mapping" /\ cur.isStart /\ ~skipNestedEvents
      THEN mappingNext(u, i)
      ELSE IF typeAt(u, i - 1) = "sequence" THEN sequenceNext(remove(u, i), i - 1)
      ELSE IF typeAt(u, i - 1) = "mapping" THEN mappingNext(remove(u, i), i - 1)
      ELSE moveTo(remove(u, i), i - 1)

\* the end of TemplateUnraveler.moveNext: _expanded = false, unravel(false)
moveNextUnravel(moved) ==
  IF moved.exc # "none" THEN moved ELSE unravel([moved EXCEPT !.expanded = FALSE], FALSE)

\* TemplateUnraveler.moveNext
moveNext(u, skipNestedEvents) ==
  IF u.exc # "none" \/ u.stack = <<>> THEN u
  ELSE moveNextUnravel(moveNextBranch(u, skipNestedEvents))

(***************************************************************************)
(* SpecMemory: a TemplateMemory driven by any caller                       *)
(***************************************************************************)
\* the byte limits a template memory is constructed with; 0 is no limit
MaxBytesChoices == {0, 4 * MIN_OBJECT_SIZE, 6 * MIN_OBJECT_SIZE + POINTER_SIZE}

Amounts == {k * POINTER_SIZE : k \in 0..MaxAmountUnits}

SampleStrings == {"", "a", "abcd"}

SampleTokens ==
  { NullTok, StrTok("ab"), ExprTok("e"), InsertTok,
    SeqTok(<<StrTok("a"), NumTok("1")>>),
    MapTok(<<Pair(StrTok("k"), NullTok)>>) }

\* the TemplateMemory as the record the operations work on
Mem == [bytes |-> currentBytes, depth |-> currentDepth, exc |-> "none"]

\* the state after operation op asked for amount and left m
MemReturn(op, amount, m) ==
  /\ currentBytes' = m.bytes
  /\ currentDepth' = m.depth
  /\ thrown' = m.exc
  /\ lastOp' = op
  /\ lastAmount' = amount
  /\ prevBytes' = currentBytes
  /\ prevDepth' = currentDepth
  /\ UNCHANGED <<maxBytes, maxDepth>>
  /\ UNCHANGED evalVars
  /\ UNCHANGED unravelVars
  /\ UNCHANGED readerVars
  /\ UNCHANGED exprVars
  /\ UNCHANGED restVars

\* keeps a counter without a limit within the model
WithinModel(amount) ==
  maxBytes > 0 \/ currentBytes + amount <= MaxUnlimitedObjects * MIN_OBJECT_SIZE

MemInit ==
  /\ maxBytes \in MaxBytesChoices
  /\ maxDepth \in 1..MaxMaxDepth
  /\ currentBytes = 0
  /\ currentDepth = 0
  /\ thrown = "none"
  /\ lastOp = "new"
  /\ lastAmount = 0
  /\ prevBytes = 0
  /\ prevDepth = 0
  /\ EvalIdle
  /\ UnravelIdle
  /\ ReaderIdle
  /\ ExprIdle
  /\ TokenIdle
  /\ RestIdle

MemAddAmount ==
  \E bytes \in Amounts :
    /\ WithinModel(bytes)
    /\ MemReturn("addAmount", bytes, addAmount(Mem, bytes))
    /\ UNCHANGED tokenVars

MemAddString ==
  \E value \in SampleStrings :
    /\ WithinModel(calculateStringBytes(value))
    /\ MemReturn("addString", calculateStringBytes(value), addString(Mem, value))
    /\ UNCHANGED tokenVars

MemAddToken ==
  \E value \in SampleTokens, flag \in BOOLEAN :
    /\ WithinModel(calculateTokenBytes(value, flag))
    /\ MemReturn("addToken", calculateTokenBytes(value, flag), addToken(Mem, value, flag))
    /\ lastToken' = value
    /\ lastFlag' = flag

MemSubtractAmount ==
  \E bytes \in Amounts :
    /\ MemReturn("subtractAmount", bytes, subtractAmount(Mem, bytes))
    /\ UNCHANGED tokenVars

MemSubtractToken ==
  \E value \in SampleTokens, flag \in BOOLEAN :
    /\ MemReturn("subtractToken", calculateTokenBytes(value, flag), subtractToken(Mem, value, flag))
    /\ lastToken' = value
    /\ lastFlag' = flag

MemIncrementDepth ==
  /\ MemReturn("incrementDepth", 0, incrementDepth(Mem))
  /\ UNCHANGED tokenVars

MemDecrementDepth ==
  /\ MemReturn("decrementDepth", 0, decrementDepth(Mem))
  /\ UNCHANGED tokenVars

MemNext ==
  \/ MemAddAmount
  \/ MemAddString
  \/ MemAddToken
  \/ MemSubtractAmount
  \/ MemSubtractToken
  \/ MemIncrementDepth
  \/ MemDecrementDepth

SpecMemory == MemInit /\ [][MemNext]_vars

(***************************************************************************)
(* SpecEval: one evaluation of an expression tree.  The nodes report in    *)
(* post order: after a node of level l comes its parent (l - 1) or the     *)
(* first finished node of a following sibling's subtree (l or deeper).     *)
(***************************************************************************)
MaxMemoryChoices == {0, 2 * MIN_OBJECT_SIZE + POINTER_SIZE, 4 * MIN_OBJECT_SIZE}

\* coreResult.memory.bytes, a string's bytes, or the minimal object
CoreBytesChoices == {POINTER_SIZE, MIN_OBJECT_SIZE, calculateStringBytes("abc")}

ConversionBytesChoices == {MIN_OBJECT_SIZE, calculateStringBytes("")}

NextLevels == IF evLevel = -1 THEN 0..MaxEvalLevel ELSE (evLevel - 1)..MaxEvalLevel

EvalInit ==
  /\ maxBytes = 0
  /\ maxDepth = 1
  /\ currentBytes = 0
  /\ currentDepth = 0
  /\ thrown = "none"
  /\ lastOp = "new"
  /\ lastAmount = 0
  /\ prevBytes = 0
  /\ prevDepth = 0
  /\ \E max \in MaxMemoryChoices : evMaxBytes = EvaluationMaxMemory(max)
  /\ evDepths = <<>>
  /\ evMaxActiveDepth = -1
  /\ evTotalBytes = 0
  /\ evThrown = "none"
  /\ evLevel = -1
  /\ evCount = 0
  /\ UnravelIdle
  /\ ReaderIdle
  /\ ExprIdle
  /\ TokenIdle
  /\ RestIdle

\* AbstractExpressionNode.evaluate of one node, after its evaluateCore returned
Evaluate ==
  /\ evThrown = "none"
  /\ evLevel # 0
  /\ evCount < MaxEvalCharges
  /\ \E level \in NextLevels, coreBytes \in CoreBytesChoices, trimDepth \in BOOLEAN,
        raw \in BOOLEAN, conversionBytes \in ConversionBytesChoices :
       LET e == evaluateCharges([depths |-> evDepths, maxActive |-> evMaxActiveDepth,
                                 total |-> evTotalBytes, exc |-> "none"],
                                level, coreBytes, trimDepth, raw, conversionBytes)
       IN  /\ level >= 0
           /\ evDepths' = e.depths
           /\ evMaxActiveDepth' = e.maxActive
           /\ evTotalBytes' = e.total
           /\ evThrown' = e.exc
           /\ evLevel' = level
           /\ evCount' = evCount + 1
           /\ UNCHANGED evMaxBytes
           /\ UNCHANGED memVars
           /\ UNCHANGED unravelVars
           /\ UNCHANGED readerVars
           /\ UNCHANGED exprVars
           /\ UNCHANGED tokenVars
           /\ UNCHANGED restVars

EvalNext == Evaluate

SpecEval == EvalInit /\ [][EvalNext]_vars

(***************************************************************************)
(* Spec: one TemplateUnraveler over a template, driven by any caller.  The *)
(* caller stops at the first error thrown to it.                           *)
(***************************************************************************)
\* an event returned to the caller: the scalar, or the start or end of a collection
Event(kind, tok) == [kind |-> kind, type |-> tok.type, lit |-> tok.lit]

NoEvent == <<>>

\* the unraveler and its context's memory as the record the operations work on
Unraveler ==
  [bytes |-> currentBytes, depth |-> currentDepth, exc |-> "none", stack |-> stack,
   expanded |-> expanded, errors |-> errors, evalOk |-> evalOk, evalFailed |-> evalFailed]

\* the state after an operation left u and returned the events in events
UnravelReturn(u, events, expand, nextPhase) ==
  /\ currentBytes' = u.bytes
  /\ currentDepth' = u.depth
  /\ thrown' = u.exc
  /\ stack' = u.stack
  /\ expanded' = u.expanded
  /\ errors' = u.errors
  /\ evalOk' = u.evalOk
  /\ evalFailed' = u.evalFailed
  /\ emitted' = IF u.exc = "none" THEN emitted \o events ELSE emitted
  /\ allExpand' = (allExpand /\ expand)
  /\ phase' = IF u.exc = "none" THEN nextPhase ELSE phase
  /\ UNCHANGED <<maxBytes, maxDepth, template, env, ctorRemoveBytes, initialBytes>>
  /\ UNCHANGED <<lastOp, lastAmount, prevBytes, prevDepth>>
  /\ UNCHANGED evalVars
  /\ UNCHANGED readerVars
  /\ UNCHANGED exprVars
  /\ UNCHANGED tokenVars
  /\ UNCHANGED restVars

\* the caller may call the unraveler
Reading == phase = "reading" /\ thrown = "none"

\* the value of _current, undefined where there is no current state
currentIs(u, types) == u.exc = "none" /\ u.stack # <<>> /\ typeAt(u, Len(u.stack)) \in types

\* TemplateUnraveler.moveFirst
moveFirst(u, value, bytes) ==
  IF value.type = "insert-expression" THEN [u EXCEPT !.exc = "unexpected-type"]
  ELSE createState(u, 0, value, bytes)

\* new TemplateUnraveler(context, template, removeBytes)
NewUnraveler ==
  /\ phase = "new"
  /\ UnravelReturn(moveFirst(Unraveler, template, ctorRemoveBytes), NoEvent, TRUE, "reading")

\* "if (expand) this.unravel(true)", the start of every allow... operation
unravelIf(u, expand) == IF expand THEN unravel(u, TRUE) ELSE u

\* what an operation returns: the events handed to the caller, and the unraveler
Emit(events, u) == [events |-> events, u |-> u]

\* allowScalar after its unravel
allowScalar(u) ==
  IF u.exc = "none" /\ u.stack # <<>> /\ isScalar(current(u).value)
  THEN Emit(<<Event("scalar", current(u).value)>>,
            moveNext(addToken(u, current(u).value, FALSE), FALSE))
  ELSE Emit(NoEvent, u)

\* allowSequenceStart and allowMappingStart after their unravel; empty is the token returned
allowStart(u, type, kind, empty) ==
  IF currentIs(u, {type}) /\ current(u).isStart
  THEN Emit(<<Event(kind, empty)>>, moveNext(addToken(u, empty, FALSE), FALSE))
  ELSE Emit(NoEvent, u)

\* allowSequenceEnd and allowMappingEnd after their unravel
allowEnd(u, type, kind, empty) ==
  IF currentIs(u, {type}) /\ collectionIsEnd(current(u))
  THEN Emit(<<Event(kind, empty)>>, moveNext(u, FALSE))
  ELSE Emit(NoEvent, u)

\* the state after an allow... operation returned r
AllowReturn(r, expand) == UnravelReturn(r.u, r.events, expand, "reading")

\* TemplateUnraveler.allowScalar
AllowScalar ==
  \E expand \in BOOLEAN :
    /\ Reading
    /\ AllowReturn(allowScalar(unravelIf(Unraveler, expand)), expand)

\* TemplateUnraveler.allowSequenceStart
AllowSequenceStart ==
  \E expand \in BOOLEAN :
    /\ Reading
    /\ AllowReturn(allowStart(unravelIf(Unraveler, expand), "sequence", "sequence-start",
                              SeqTok(<<>>)), expand)

\* TemplateUnraveler.allowSequenceEnd
AllowSequenceEnd ==
  \E expand \in BOOLEAN :
    /\ Reading
    /\ AllowReturn(allowEnd(unravelIf(Unraveler, expand), "sequence", "sequence-end",
                            SeqTok(<<>>)), expand)

\* TemplateUnraveler.allowMappingStart
AllowMappingStart ==
  \E expand \in BOOLEAN :
    /\ Reading
    /\ AllowReturn(allowStart(unravelIf(Unraveler, expand), "mapping", "mapping-start",
                              MapTok(<<>>)), expand)

\* TemplateUnraveler.allowMappingEnd
AllowMappingEnd ==
  \E expand \in BOOLEAN :
    /\ Reading
    /\ AllowReturn(allowEnd(unravelIf(Unraveler, expand), "mapping", "mapping-end",
                            MapTok(<<>>)), expand)

\* TemplateUnraveler.readEnd
ReadEnd ==
  /\ Reading
  /\ UnravelReturn(IF stack # <<>> THEN [Unraveler EXCEPT !.exc = "expected-end"] ELSE Unraveler,
                   NoEvent, TRUE, "ended")

\* readMappingEnd after its allowMappingEnd(false) returned r
readMappingEnd(r) ==
  IF r.events # NoEvent \/ r.u.exc # "none" THEN r
  ELSE Emit(NoEvent, [r.u EXCEPT !.exc = "unexpected-read"])

\* TemplateUnraveler.readMappingEnd
ReadMappingEnd ==
  /\ Reading
  /\ AllowReturn(readMappingEnd(allowEnd(Unraveler, "mapping", "mapping-end", MapTok(<<>>))),
                 FALSE)

\* the skip... operations: misuse throws, else moveNext(true)
skip(u, allowed) == IF allowed THEN moveNext(u, TRUE) ELSE [u EXCEPT !.exc = "unexpected-skip"]

\* TemplateUnraveler.skipSequenceItem
SkipSequenceItem ==
  /\ Reading
  /\ UnravelReturn(skip(Unraveler, typeAt(Unraveler, Len(stack) - 1) = "sequence"),
                   NoEvent, FALSE, "reading")

\* TemplateUnraveler.skipMappingKey
SkipMappingKey ==
  /\ Reading
  /\ UnravelReturn(skip(Unraveler, typeAt(Unraveler, Len(stack) - 1) = "mapping"
                                   /\ stack[Len(stack) - 1].isKey),
                   NoEvent, FALSE, "reading")

\* TemplateUnraveler.skipMappingValue
SkipMappingValue ==
  /\ Reading
  /\ UnravelReturn(skip(Unraveler, typeAt(Unraveler, Len(stack) - 1) = "mapping"
                                   /\ ~stack[Len(stack) - 1].isKey),
                   NoEvent, FALSE, "reading")

\* the literals the templates are made of
Build == StrTok("build")

Lint == StrTok("lint")

Package == StrTok("package")

Test == StrTok("test")

\* the templates: every expression position, an insertion, nesting four deep
Templates ==
  { SeqTok(<<Build, ExprTok("extra"), Test>>),
    MapTok(<<Pair(StrTok("a"), NumTok("1")), Pair(InsertTok, ExprTok("E")),
             Pair(StrTok("b"), NumTok("2"))>>),
    MapTok(<<Pair(StrTok("a"), NumTok("1")), Pair(InsertTok, Lint),
             Pair(StrTok("b"), NumTok("2"))>>),
    MapTok(<<Pair(InsertTok, MapTok(<<Pair(StrTok("c"), NumTok("3"))>>))>>),
    MapTok(<<Pair(StrTok("k"), ExprTok("e")), Pair(StrTok("b"), NumTok("2"))>>),
    MapTok(<<Pair(ExprTok("e"), Lint), Pair(StrTok("b"), NumTok("2"))>>),
    MapTok(<<Pair(ExprTok("e"), SeqTok(<<Lint, Package>>)), Pair(StrTok("b"), NumTok("2"))>>),
    MapTok(<<Pair(StrTok("a"), NumTok("1")), Pair(ExprTok("e"), MapTok(<<Pair(Build, Test)>>))>>),
    ExprTok("e"),
    SeqTok(<<InsertTok, BoolTok("true")>>),
    SeqTok(<<Build, MapTok(<<Pair(StrTok("k"), SeqTok(<<NullTok>>))>>)>>) }

\* what the expressions of a template evaluate to
Outcomes ==
  { Failure,
    Outcome(StrTok("x"), FALSE),
    Outcome(SeqTok(<<Lint, Package>>), FALSE),
    Outcome(SeqTok(<<Lint, Package>>), TRUE),
    Outcome(MapTok(<<Pair(StrTok("c"), NumTok("3")), Pair(StrTok("a"), NumTok("9"))>>), FALSE),
    Outcome(MapTok(<<Pair(StrTok("c"), NumTok("3")), Pair(StrTok("a"), NumTok("9"))>>), TRUE),
    Outcome(MapTok(<<>>), FALSE) }

ExpressionNames == {"extra", "E", "e"}

\* the limits of the context's TemplateMemory: none, or tight enough to be hit
UnravelLimits ==
  { <<0, DEFAULT_MAX_DEPTH>>, <<MaxBytesObjects * MIN_OBJECT_SIZE, DEFAULT_MAX_DEPTH>>,
    <<0, MaxMaxDepth>> }

Init ==
  /\ template \in Templates
  /\ \E outcome \in Outcomes : env = [name \in ExpressionNames |-> outcome]
  /\ \E limits \in UnravelLimits :
       /\ maxBytes = limits[1]
       /\ maxDepth = limits[2]
  /\ \E held \in BOOLEAN :
       /\ initialBytes = IF held THEN calculateTokenBytes(template, TRUE) ELSE 0
       /\ ctorRemoveBytes = initialBytes
  /\ currentBytes = initialBytes
  /\ currentDepth = 0
  /\ thrown = "none"
  /\ lastOp = "new"
  /\ lastAmount = 0
  /\ prevBytes = 0
  /\ prevDepth = 0
  /\ phase = "new"
  /\ stack = <<>>
  /\ expanded = FALSE
  /\ errors = <<>>
  /\ emitted = <<>>
  /\ evalOk = 0
  /\ evalFailed = 0
  /\ allExpand = TRUE
  /\ EvalIdle
  /\ ReaderIdle
  /\ ExprIdle
  /\ TokenIdle
  /\ RestIdle

Next ==
  \/ NewUnraveler
  \/ AllowScalar
  \/ AllowSequenceStart
  \/ AllowSequenceEnd
  \/ AllowMappingStart
  \/ AllowMappingEnd
  \/ ReadEnd
  \/ ReadMappingEnd
  \/ SkipSequenceItem
  \/ SkipMappingKey
  \/ SkipMappingValue

Spec == Init /\ [][Next]_vars

(***************************************************************************)
(* TemplateSchema.  A definition is a record; properties holds the         *)
(* well-known properties of a mapping definition in their order, oneOf the *)
(* names of the alternatives of a one-of definition and context the reader *)
(* context the definition adds.                                            *)
(***************************************************************************)
Definition(type, context, itemType, properties, looseKeyType, looseValueType, oneOf) ==
  [type |-> type, context |-> context, itemType |-> itemType, properties |-> properties,
   looseKeyType |-> looseKeyType, looseValueType |-> looseValueType, oneOf |-> oneOf]

\* a well-known property of a mapping definition
PropertyValue(name, type, required) == [name |-> name, type |-> type, required |-> required]

\* the built-in definitions of every schema, and the definitions of a workflow-like schema
Schema ==
  [null |-> Definition("null", <<>>, "", <<>>, "", "", <<>>),
   boolean |-> Definition("boolean", <<>>, "", <<>>, "", "", <<>>),
   number |-> Definition("number", <<>>, "", <<>>, "", "", <<>>),
   string |-> Definition("string", <<>>, "", <<>>, "", "", <<>>),
   sequence |-> Definition("sequence", <<>>, "any", <<>>, "", "", <<>>),
   mapping |-> Definition("mapping", <<>>, "", <<>>, "string", "any", <<>>),
   any |-> Definition("one-of", <<>>, "", <<>>, "", "",
                      <<"null", "boolean", "number", "string", "sequence", "mapping">>),
   runStep |-> Definition("mapping", <<>>, "",
                          <<PropertyValue("run", "string", TRUE),
                            PropertyValue("name", "string", FALSE)>>, "", "", <<>>),
   usesStep |-> Definition("mapping", <<>>, "",
                           <<PropertyValue("uses", "string", TRUE),
                             PropertyValue("name", "string", FALSE)>>, "", "", <<>>),
   step |-> Definition("one-of", <<>>, "", <<>>, "", "", <<"runStep", "usesStep">>),
   steps |-> Definition("sequence", <<>>, "step", <<>>, "", "", <<>>),
   strings |-> Definition("sequence", <<>>, "string", <<>>, "", "", <<>>),
   job |-> Definition("mapping", <<"e">>, "",
                      <<PropertyValue("name", "string", TRUE),
                        PropertyValue("steps", "steps", FALSE)>>, "string", "any", <<>>),
   jobs |-> Definition("mapping", <<"e">>, "", <<>>, "string", "string", <<>>)]

\* String.prototype.toUpperCase on the texts of the model
toUpperCase(s) ==
  CASE s = "run" -> "RUN"
    [] s = "Run" -> "RUN"
    [] s = "name" -> "NAME"
    [] s = "Name" -> "NAME"
    [] s = "uses" -> "USES"
    [] s = "steps" -> "STEPS"
    [] s = "e" -> "E"
    [] s = "v1" -> "V1"
    [] s = "v2" -> "V2"
    [] s = "v3" -> "V3"
    [] s = "v4" -> "V4"
    [] s = "${{ e }}" -> "${{ E }}"
    [] s = "${{ insert }}" -> "${{ INSERT }}"
    [] s = "a" -> "A"
    [] s = "b" -> "B"
    [] s = "length" -> "LENGTH"
    [] s = "contains" -> "CONTAINS"
    [] s = "endsWith" -> "ENDSWITH"
    [] s = "format" -> "FORMAT"
    [] s = "join" -> "JOIN"
    [] s = "Join" -> "JOIN"
    [] s = "startsWith" -> "STARTSWITH"
    [] s = "toJson" -> "TOJSON"
    [] s = "fromJson" -> "FROMJSON"
    [] s = "eq" -> "EQ"
    [] OTHER -> s

\* the text between the first ${{ and its }} in a string of the model, trimmed; "" without ${{
expressionIn(raw) ==
  CASE raw = "${{ e }}" -> "e"
    [] raw = "${{ E }}" -> "E"
    [] raw = "${{ insert }}" -> "insert"
    [] OTHER -> ""

\* TemplateSchema.getDefinitionsOfType, by name
getDefinitionsOfType(name, type) ==
  IF Schema[name].type = type THEN <<name>>
  ELSE IF Schema[name].type = "one-of"
  THEN SelectSeq(Schema[name].oneOf, LAMBDA nested : Schema[nested].type = type)
  ELSE <<>>

\* TemplateSchema.getScalarDefinitions, by name
getScalarDefinitions(name) ==
  IF Schema[name].type \in {"null", "boolean", "number", "string"} THEN <<name>>
  ELSE IF Schema[name].type = "one-of"
  THEN SelectSeq(Schema[name].oneOf,
                 LAMBDA nested : Schema[nested].type \in {"null", "boolean", "number", "string"})
  ELSE <<>>

\* the type of property propertyName of a mapping definition, "" when it has none
propertyType(name, propertyName) ==
  LET found == SelectSeq(Schema[name].properties, LAMBDA p : p.name = propertyName)
  IN  IF found = <<>> THEN "" ELSE found[1].type

\* a match that leaves the candidates as they are
matchPropertyAndKeep(definitions, propertyName) ==
  LET matched == SelectSeq(definitions, LAMBDA d : propertyType(d, propertyName) # "")
  IN  [type |-> IF matched = <<>> THEN ""
                ELSE propertyType(matched[Len(matched)], propertyName),
       definitions |-> definitions]

\* TemplateSchema.matchPropertyAndFilter: the matched type and the filtered definitions
matchPropertyAndFilter(definitions, propertyName) ==
  LET matched == SelectSeq(definitions, LAMBDA d : propertyType(d, propertyName) # "")
  IN  [type |-> IF matched = <<>> THEN ""
                ELSE propertyType(matched[Len(matched)], propertyName),
       definitions |-> IF matched # <<>> /\ Len(matched) < Len(definitions)
                       THEN matched ELSE definitions]

RECURSIVE appendUnseen(_, _, _)
\* DefinitionInfo's constructor: the contexts of readerContext not yet allowed are appended
appendUnseen(allowed, readerContext, i) ==
  IF i > Len(readerContext) THEN allowed
  ELSE appendUnseen(
         IF \E j \in 1..Len(allowed) : toUpperCase(allowed[j]) = toUpperCase(readerContext[i])
         THEN allowed ELSE Append(allowed, readerContext[i]),
         readerContext, i + 1)

\* new DefinitionInfo(parent, name), the parent given by its allowed context
DefinitionInfo(parentContext, name) ==
  [name |-> name,
   allowedContext |-> IF Schema[name].context # <<>>
                      THEN appendUnseen(parentContext, Schema[name].context, 1)
                      ELSE parentContext]

(***************************************************************************)
(* ObjectReader and TemplateReader.  An operation works on a record r with *)
(* the fields of m, pos (the reader's current event) and errors; one that  *)
(* returns a token returns Read(r, token).                                 *)
(***************************************************************************)
ParseEvent(type, token) == [type |-> type, token |-> token]

RECURSIVE getParseEvents(_)
RECURSIVE getParseEventsOf(_, _)
\* JSONObjectReader.getParseEvents and YamlObjectReader.getNodes below the document
getParseEvents(value) ==
  IF value.type = "sequence"
  THEN <<ParseEvent("sequence-start", SeqTok(<<>>))>> \o getParseEventsOf(value, 1)
       \o <<ParseEvent("sequence-end", NullTok)>>
  ELSE IF value.type = "mapping"
  THEN <<ParseEvent("mapping-start", MapTok(<<>>))>> \o getParseEventsOf(value, 1)
       \o <<ParseEvent("mapping-end", NullTok)>>
  ELSE <<ParseEvent("literal", value)>>

\* the events of the children of a collection from child i on
getParseEventsOf(parent, i) ==
  IF i > Len(parent.kids) THEN <<>>
  ELSE IF parent.type = "sequence"
       THEN getParseEvents(parent.kids[i]) \o getParseEventsOf(parent, i + 1)
       ELSE <<ParseEvent("literal", parent.kids[i].key)>>
            \o getParseEvents(parent.kids[i].value) \o getParseEventsOf(parent, i + 1)

\* the events of a document
documentEvents(value) ==
  <<ParseEvent("document-start", NullTok)>> \o getParseEvents(value)
  \o <<ParseEvent("document-end", NullTok)>>

Read(r, value) == [r |-> r, value |-> value]

\* the ObjectReader's current event
currentEvent(r) ==
  IF r.pos <= Len(objectEvents) THEN objectEvents[r.pos] ELSE ParseEvent("done", NullTok)

\* the test of allowLiteral, allowSequenceStart, ..., validateEnd
allow(r, type) == r.exc = "none" /\ currentEvent(r).type = type

\* an entry of the history: what was called with the reader at which event
Call(op, at) == [op |-> op, at |-> at]

called(r, op) == [r EXCEPT !.calls = Append(@, Call(op, r.pos))]

\* the move to the next event of an allow that matched
consume(r) == [called(r, "allow") EXCEPT !.pos = @ + 1]

throw(r, err) == IF r.exc # "none" THEN r ELSE [r EXCEPT !.exc = err]

\* TemplateContext.error, skipped after a throw
readerError(r, err) == IF r.exc # "none" THEN r ELSE contextError(r, err)

isExpression(t) == t.type \in {"basic-expression", "insert-expression"}

\* TemplateReader.parseScalar with parseExpression, on the texts of the model
parseScalar(r, token, allowedContext) ==
  IF token.type # "string" \/ expressionIn(token.lit) = "" THEN Read(r, token)
  ELSE IF expressionIn(token.lit) = "insert" THEN Read(r, InsertTok)
  ELSE IF \E j \in 1..Len(allowedContext) :
            toUpperCase(allowedContext[j]) = toUpperCase(expressionIn(token.lit))
  THEN Read(r, ExprTok(expressionIn(token.lit)))
  ELSE Read(readerError(r, "Unrecognized named-value: '" \o expressionIn(token.lit) \o "'"),
            token)

\* TemplateReader.validate
validate(r, scalar, definition) ==
  IF isLiteral(scalar)
  THEN IF \E j \in 1..Len(getScalarDefinitions(definition.name)) :
            Schema[getScalarDefinitions(definition.name)[j]].type = scalar.type
       THEN Read(r, scalar)
       ELSE IF scalar.type # "string" /\ "string" \in
                 {Schema[getScalarDefinitions(definition.name)[j]].type :
                    j \in 1..Len(getScalarDefinitions(definition.name))}
       THEN Read(r, StrTok(scalar.lit))
       ELSE Read(readerError(r, "Unexpected value '" \o scalar.lit \o "'"), scalar)
  ELSE IF scalar.type = "basic-expression"
  THEN Read(IF definition.allowedContext = <<>>
            THEN readerError(r, "A template expression is not allowed in this context")
            ELSE r, scalar)
  ELSE Read(readerError(r, "Unexpected value '${{ " \o scalar.lit \o " }}'"), scalar)

RECURSIVE skipValue(_)
RECURSIVE skipItems(_)
RECURSIVE skipPairs(_)
\* TemplateReader.skipValue
skipValue(r) ==
  IF r.exc # "none" THEN r
  ELSE IF allow(r, "literal") THEN consume(r)
  ELSE IF allow(r, "sequence-start") THEN skipItems(incrementDepth(consume(r)))
  ELSE IF allow(r, "mapping-start") THEN skipPairs(incrementDepth(consume(r)))
  ELSE throw(r, "Expected a scalar value, a sequence, or a mapping")

\* while (!allowSequenceEnd()) skipValue(), then decrementDepth
skipItems(r) ==
  IF r.exc # "none" THEN r
  ELSE IF allow(r, "sequence-end") THEN decrementDepth(consume(r))
  ELSE skipItems(skipValue(r))

\* while (!allowMappingEnd()) { skipValue(); skipValue() }, then decrementDepth
skipPairs(r) ==
  IF r.exc # "none" THEN r
  ELSE IF allow(r, "mapping-end") THEN decrementDepth(consume(r))
  ELSE skipPairs(skipValue(skipValue(r)))

RECURSIVE skipPairsWhileEnd(_)
\* readValue's loop for a mapping that was not expected:
\* while (allowMappingEnd()) { skipValue(); skipValue() }
skipPairsWhileEnd(r) ==
  IF r.exc # "none" THEN r
  ELSE IF allow(r, "mapping-end") THEN skipPairsWhileEnd(skipValue(skipValue(consume(r))))
  ELSE r

\* the local state of a mapping handler
MappingHandler(definitions) ==
  [definitions |-> definitions,
   looseKeyType |-> Schema[definitions[1]].looseKeyType,
   looseValueType |-> Schema[definitions[1]].looseValueType,
   upperKeys |-> {}, hasExpressionKey |-> FALSE, pairs |-> <<>>]

\* mapping.add(key, value) into the handler's mapping
addPair(h, key, value) == [h EXCEPT !.pairs = Append(@, Pair(key, value))]

RECURSIVE requiredErrors(_, _, _, _)
\* the check of the required properties of a definition, from property i on
requiredErrors(r, name, upperKeys, i) ==
  IF i > Len(Schema[name].properties) THEN r
  ELSE requiredErrors(
         IF Schema[name].properties[i].required
            /\ toUpperCase(Schema[name].properties[i].name) \notin upperKeys
         THEN readerError(r, "Required property is missing: "
                             \o Schema[name].properties[i].name)
         ELSE r, name, upperKeys, i + 1)

\* TemplateReader.expectMappingEnd
expectMappingEnd(r) ==
  IF r.exc # "none" THEN r
  ELSE IF allow(r, "mapping-end") THEN consume(r)
  ELSE throw(r, "Expected mapping end")

\* the end of handleMappingWithWellKnownProperties, after its loop over the keys
wellKnownEnd(r, h) ==
  Read(decrementDepth(expectMappingEnd(
         IF Len(h.definitions) > 1
         THEN readerError(r, "There's not enough info to determine what you meant")
         ELSE IF Len(h.definitions) = 1 /\ ~h.hasExpressionKey
         THEN requiredErrors(r, h.definitions[1], h.upperKeys, 1)
         ELSE r)),
       MapTok(h.pairs))

\* a duplicate check that forgets the keys it has seen
isDuplicateNever(h, upperKey) == FALSE

\* the duplicate check of the mapping handlers
isDuplicate(h, upperKey) == upperKey \in h.upperKeys

RECURSIVE readValue(_, _)
RECURSIVE readItems(_, _, _)
RECURSIVE handleMappingWithWellKnownProperties(_, _, _)
RECURSIVE handleMappingWithAllLooseProperties(_, _, _, _, _)

\* the rest of an iteration of a mapping handler once the value of key was read
wellKnownAdd(x, definition, h, key) ==
  handleMappingWithWellKnownProperties(x.r, definition, addPair(h, key, x.value))

\* a literal key that is no duplicate: well known, loose or unexpected
wellKnownProperty(r, definition, h, nextKey, match) ==
  IF match.type # ""
  THEN wellKnownAdd(readValue(addToken(r, nextKey, FALSE),
                              DefinitionInfo(definition.allowedContext, match.type)),
                    definition, [h EXCEPT !.definitions = match.definitions], nextKey)
  ELSE IF h.looseKeyType # ""
  THEN wellKnownAdd(
         readValue(addToken(validate(r, nextKey,
                                     DefinitionInfo(definition.allowedContext,
                                                    h.looseKeyType)).r,
                            nextKey, FALSE),
                   DefinitionInfo(definition.allowedContext, h.looseValueType)),
         definition, h, nextKey)
  ELSE handleMappingWithWellKnownProperties(
         skipValue(readerError(r, "Unexpected value '" \o nextKey.lit \o "'")),
         definition, h)

\* one key of handleMappingWithWellKnownProperties, x the result of parseScalar
wellKnownKey(x, definition, h) ==
  IF isExpression(x.value)
  THEN IF definition.allowedContext # <<>>
       THEN wellKnownAdd(readValue(addToken(x.r, x.value, FALSE),
                                   DefinitionInfo(definition.allowedContext, "any")),
                         definition, [h EXCEPT !.hasExpressionKey = TRUE], x.value)
       ELSE handleMappingWithWellKnownProperties(
              skipValue(readerError(x.r,
                                    "A template expression is not allowed in this context")),
              definition, [h EXCEPT !.hasExpressionKey = TRUE])
  ELSE IF isDuplicate(h, toUpperCase(x.value.lit))
  THEN handleMappingWithWellKnownProperties(
         skipValue(readerError(x.r, "'" \o x.value.lit \o "' is already defined")),
         definition, h)
  ELSE wellKnownProperty(x.r, definition,
                         [h EXCEPT !.upperKeys = @ \cup {toUpperCase(x.value.lit)}],
                         StrTok(x.value.lit),
                         matchPropertyAndFilter(h.definitions, x.value.lit))

\* TemplateReader.handleMappingWithWellKnownProperties; h is its local state
handleMappingWithWellKnownProperties(r, definition, h) ==
  IF r.exc # "none" THEN Read(r, NullTok)
  ELSE IF allow(r, "literal")
  THEN wellKnownKey(parseScalar(consume(r), currentEvent(r).token,
                                definition.allowedContext),
                    definition, h)
  ELSE wellKnownEnd(r, h)

\* the rest of an iteration of the loose handler once the value of key was read
allLooseAdd(x, mappingDefinition, keyDefinition, valueDefinition, h, key) ==
  handleMappingWithAllLooseProperties(x.r, mappingDefinition, keyDefinition,
                                      valueDefinition, addPair(h, key, x.value))

\* one key of handleMappingWithAllLooseProperties, x the result of parseScalar
allLooseKey(x, mappingDefinition, keyDefinition, valueDefinition, h) ==
  IF isExpression(x.value)
  THEN IF mappingDefinition.allowedContext # <<>>
       THEN allLooseAdd(readValue(addToken(x.r, x.value, FALSE), valueDefinition),
                        mappingDefinition, keyDefinition, valueDefinition, h, x.value)
       ELSE handleMappingWithAllLooseProperties(
              skipValue(readerError(x.r,
                                    "A template expression is not allowed in this context")),
              mappingDefinition, keyDefinition, valueDefinition, h)
  ELSE IF isDuplicate(h, toUpperCase(x.value.lit))
  THEN handleMappingWithAllLooseProperties(
         skipValue(readerError(x.r, "'" \o x.value.lit \o "' is already defined")),
         mappingDefinition, keyDefinition, valueDefinition, h)
  ELSE allLooseAdd(
         readValue(addToken(validate(x.r, StrTok(x.value.lit), keyDefinition).r,
                            StrTok(x.value.lit), FALSE),
                   valueDefinition),
         mappingDefinition, keyDefinition, valueDefinition,
         [h EXCEPT !.upperKeys = @ \cup {toUpperCase(x.value.lit)}], StrTok(x.value.lit))

\* TemplateReader.handleMappingWithAllLooseProperties; h is its local state
handleMappingWithAllLooseProperties(r, mappingDefinition, keyDefinition, valueDefinition, h) ==
  IF r.exc # "none" THEN Read(r, NullTok)
  ELSE IF allow(r, "literal")
  THEN allLooseKey(parseScalar(consume(r), currentEvent(r).token,
                               mappingDefinition.allowedContext),
                   mappingDefinition, keyDefinition, valueDefinition, h)
  ELSE Read(decrementDepth(expectMappingEnd(r)), MapTok(h.pairs))

\* readValue for a literal, x the result of validate
readScalar(x) == Read(addToken(x.r, x.value, FALSE), x.value)

\* the next item of a sequence that is expected, x the item read
readItem(x, itemDefinition, items) == readItems(x.r, itemDefinition, Append(items, x.value))

\* readValue's loop over the items of a sequence that is expected, then decrementDepth
readItems(r, itemDefinition, items) ==
  IF r.exc # "none" THEN Read(r, NullTok)
  ELSE IF allow(r, "sequence-end") THEN Read(decrementDepth(consume(r)), SeqTok(items))
  ELSE readItem(readValue(r, itemDefinition), itemDefinition, items)

\* readValue after a sequence start
readSequence(r, definition, sequenceDefinitions) ==
  IF sequenceDefinitions # <<>>
  THEN readItems(r, DefinitionInfo(definition.allowedContext,
                                   Schema[sequenceDefinitions[1]].itemType), <<>>)
  ELSE Read(skipItems(readerError(r, "A sequence was not expected")), SeqTok(<<>>))

\* readValue after a mapping start
readMapping(r, definition, mappingDefinitions) ==
  IF mappingDefinitions = <<>>
  THEN Read(decrementDepth(skipPairsWhileEnd(
              readerError(r, "A mapping was not expected"))), MapTok(<<>>))
  ELSE IF Len(mappingDefinitions) > 1
          \/ Schema[mappingDefinitions[1]].properties # <<>>
          \/ Schema[mappingDefinitions[1]].looseKeyType = ""
  THEN handleMappingWithWellKnownProperties(r, definition, MappingHandler(mappingDefinitions))
  ELSE handleMappingWithAllLooseProperties(
         r, definition,
         DefinitionInfo(definition.allowedContext, Schema[mappingDefinitions[1]].looseKeyType),
         DefinitionInfo(definition.allowedContext,
                        Schema[mappingDefinitions[1]].looseValueType),
         MappingHandler(mappingDefinitions))

\* the validation of a literal that was read, x the result of parseScalar
readLiteral(x, definition) == readScalar(validate(x.r, x.value, definition))

\* TemplateReader.readValue
readValue(r, definition) ==
  IF r.exc # "none" THEN Read(r, NullTok)
  ELSE IF allow(r, "literal")
  THEN readLiteral(parseScalar(consume(r), currentEvent(r).token, definition.allowedContext),
                   definition)
  ELSE IF allow(r, "sequence-start")
  THEN readSequence(addToken(incrementDepth(consume(r)), SeqTok(<<>>), FALSE), definition,
                    getDefinitionsOfType(definition.name, "sequence"))
  ELSE IF allow(r, "mapping-start")
  THEN readMapping(addToken(incrementDepth(consume(r)), MapTok(<<>>), FALSE), definition,
                   getDefinitionsOfType(definition.name, "mapping"))
  ELSE Read(throw(r, "Expected a scalar value, a sequence, or a mapping"), NullTok)

\* ObjectReader.validateStart
validateStart(r) ==
  IF allow(r, "document-start") THEN [called(r, "validateStart") EXCEPT !.pos = @ + 1]
  ELSE throw(called(r, "validateStart"), "Expected start of reader")

\* ObjectReader.validateEnd after readValue returned x
validateEnd(x) ==
  Read(IF x.r.exc # "none" THEN x.r
       ELSE IF allow(x.r, "document-end") THEN [called(x.r, "validateEnd") EXCEPT !.pos = @ + 1]
       ELSE throw(called(x.r, "validateEnd"), "Expected end of reader"),
       x.value)

\* the catch of readTemplate: the error thrown is recorded on the context; the value
\* is the one readValue returned, if it returned
readTemplateCatch(x) ==
  IF x.r.exc = "none" THEN x
  ELSE Read([contextError(called(x.r, "catch"), x.r.exc) EXCEPT !.exc = "none"],
            IF x.r.exc = "Expected end of reader" THEN x.value ELSE NullTok)

\* a readTemplate that leaves validateEnd out
readTemplateWithoutEnd(r, type) ==
  LET value == readValue(validateStart(r), DefinitionInfo(<<>>, type))
  IN  readTemplateCatch(IF value.r.exc = "none"
                        THEN Read(called(value.r, "readValue"), value.value)
                        ELSE value)

\* readTemplate
readTemplate(r, type) ==
  LET value == readValue(validateStart(r), DefinitionInfo(<<>>, type))
      returned == IF value.r.exc = "none" THEN Read(called(value.r, "readValue"), value.value)
                  ELSE value
  IN  readTemplateCatch(validateEnd(returned))

(***************************************************************************)
(* SpecReader: readTemplate of a document against a definition of Schema.  *)
(***************************************************************************)
\* the largest number of pairs of a generated mapping
MaxPairs == 3

\* the keys of the generated mappings
SampleKeys == {"run", "Run", "name", "${{ e }}"}

\* the value of the i-th pair of a generated mapping
SampleValue(i) == StrTok(<<"v1", "v2", "v3", "v4">>[i])

\* the mapping whose keys are keys, in this order
FlatMapping(keys) ==
  MapTok([i \in 1..Len(keys) |-> Pair(StrTok(keys[i]), SampleValue(i))])

FlatMappings == {FlatMapping(keys) : keys \in UNION {[1..n -> SampleKeys] : n \in 0..MaxPairs}}

\* a run step whose run property holds value, followed by a name
StepRunning(value) ==
  MapTok(<<Pair(StrTok("run"), value), Pair(StrTok("name"), SampleValue(2))>>)

\* sequences and mappings, empty and nested
SampleCollections ==
  {SeqTok(<<>>), MapTok(<<>>),
   SeqTok(<<SampleValue(1), SeqTok(<<SampleValue(3)>>)>>),
   SeqTok(<<MapTok(<<Pair(StrTok("a"), SampleValue(1))>>)>>),
   MapTok(<<Pair(StrTok("a"), SampleValue(1))>>),
   MapTok(<<Pair(StrTok("a"), SeqTok(<<SampleValue(1)>>)), Pair(StrTok("b"), SampleValue(3))>>)}

NestedDocuments ==
  {StepRunning(value) : value \in SampleCollections}
  \cup {SeqTok(<<SampleValue(1), value, SampleValue(2)>>) : value \in SampleCollections}
  \cup {NullTok, NumTok("1"), StrTok("v1"), StrTok("${{ e }}"),
        SeqTok(<<FlatMapping(<<"run">>), FlatMapping(<<"uses", "name">>),
                 FlatMapping(<<"name">>), FlatMapping(<<"run", "uses">>)>>),
        MapTok(<<Pair(StrTok("name"), SampleValue(1)),
                 Pair(StrTok("steps"), SeqTok(<<FlatMapping(<<"run">>)>>)),
                 Pair(StrTok("${{ insert }}"), FlatMapping(<<"a">>)),
                 Pair(StrTok("${{ insert }}"), FlatMapping(<<"b">>))>>),
        SeqTok(<<SeqTok(<<SeqTok(<<SeqTok(<<SampleValue(1)>>)>>)>>)>>)}

Documents == FlatMappings \cup NestedDocuments

\* the definitions documents are read against
ReaderTypes == {"string", "strings", "runStep", "step", "steps", "job", "jobs", "any"}

ReaderInit ==
  /\ \E document \in Documents : objectEvents = documentEvents(document)
  /\ readerType \in ReaderTypes
  /\ readerPos = 1
  /\ readerValue = NullTok
  /\ readerPhase = "new"
  /\ readerCalls = <<>>
  /\ maxBytes = DEFAULT_MAX_MEMORY
  /\ maxDepth \in {DEFAULT_MAX_DEPTH, MaxMaxDepth}
  /\ currentBytes = 0
  /\ currentDepth = 0
  /\ thrown = "none"
  /\ lastOp = "new"
  /\ lastAmount = 0
  /\ prevBytes = 0
  /\ prevDepth = 0
  /\ EvalIdle
  /\ UnravelIdle
  /\ ExprIdle
  /\ TokenIdle
  /\ RestIdle

\* the state after readTemplate returned x
ReadReturn(x) ==
  /\ readerPos' = x.r.pos
  /\ readerValue' = x.value
  /\ readerPhase' = "read"
  /\ readerCalls' = x.r.calls
  /\ errors' = x.r.errors
  /\ currentBytes' = x.r.bytes
  /\ currentDepth' = x.r.depth
  /\ thrown' = x.r.exc
  /\ UNCHANGED <<objectEvents, readerType, maxBytes, maxDepth, lastOp, lastAmount, prevBytes,
                 prevDepth>>
  /\ UNCHANGED <<template, env, ctorRemoveBytes, initialBytes, phase, stack, expanded,
                 emitted, evalOk, evalFailed, allExpand>>
  /\ UNCHANGED evalVars
  /\ UNCHANGED exprVars
  /\ UNCHANGED tokenVars
  /\ UNCHANGED restVars

ReadTemplate ==
  /\ readerPhase = "new"
  /\ ReadReturn(readTemplate([bytes |-> currentBytes, depth |-> currentDepth, exc |-> "none",
                              pos |-> readerPos, errors |-> errors, calls |-> <<>>],
                             readerType))

ReaderNext == ReadTemplate

SpecReader == ReaderInit /\ [][ReaderNext]_vars

\* C2: during the evaluation of an expression the total bytes tracked by the
\* evaluator's bytes-by-depth memory is at most the evaluation's max memory at every
\* instant, including the instant at which an over-limit charge is rejected.
C2_EvalTotalNeverExceedsMax == evTotalBytes <= evMaxBytes

AddOps == {"addAmount", "addString", "addToken"}

\* C1: the template memory counter's current byte total is at most its maximum at
\* every instant; an add (addAmount, addString, addToken) that would take the total
\* above the maximum fails, and leaves the total unchanged; any other add succeeds
\* and adds exactly the amount.
C1_CurrentNeverExceedsMax ==
  /\ currentBytes <= counterMaxBytes
  /\ lastOp \in AddOps =>
       IF prevBytes + lastAmount > counterMaxBytes
       THEN thrown = "memory" /\ currentBytes = prevBytes
       ELSE thrown = "none" /\ currentBytes = prevBytes + lastAmount

\* an addToken was rejected with the counter partly filled
C1_Witness ==
  /\ lastOp = "addToken"
  /\ thrown = "memory"
  /\ prevBytes > 0
  /\ prevBytes + lastAmount > counterMaxBytes

\* C3: the depth counter never exceeds maxDepth: every reader state the unraveler
\* has on its stack went through incrementDepth (the depth counts them all), and a
\* push that would take the depth to maxDepth + 1 fails with the depth left at maxDepth.
C3_DepthNeverExceedsMax ==
  /\ currentDepth <= maxDepth
  /\ thrown = "none" => currentDepth = Len(stack)
  /\ thrown = "depth" => currentDepth = maxDepth

\* the unraveler was refused a reader state at the depth limit
C3_Witness ==
  /\ phase = "reading"
  /\ thrown = "depth"
  /\ currentDepth = maxDepth
  /\ Len(stack) = maxDepth

(***************************************************************************)
(* The events the claims expect                                            *)
(***************************************************************************)
IsPrefix(p, q) == Len(p) <= Len(q) /\ SubSeq(q, 1, Len(p)) = p

ErrorKinds == {errors[i] : i \in 1..Len(errors)}

Scalar(t) == Event("scalar", t)

SequenceStart == Event("sequence-start", SeqTok(<<>>))

SequenceEnd == Event("sequence-end", SeqTok(<<>>))

MappingStart == Event("mapping-start", MapTok(<<>>))

MappingEnd == Event("mapping-end", MapTok(<<>>))

\* what an expression token stands for once it is evaluated
Resolved(t) == IF t.type = "basic-expression" THEN env[t.lit].tok ELSE t

RECURSIVE ExpandedEvents(_)
RECURSIVE ExpandedItems(_, _)
RECURSIVE ExpandedPairs(_, _)
\* the depth-first events of the expanded tree under the resolved token t
ExpandedEvents(t) ==
  IF t.type = "sequence" THEN <<SequenceStart>> \o ExpandedItems(t, 1) \o <<SequenceEnd>>
  ELSE IF t.type = "mapping" THEN <<MappingStart>> \o ExpandedPairs(t, 1) \o <<MappingEnd>>
  ELSE <<Scalar(t)>>

\* items in declaration order; an expression item that is a sequence is spliced in
ExpandedItems(t, i) ==
  IF i > Len(t.kids) THEN <<>>
  ELSE (IF t.kids[i].type = "basic-expression" /\ Resolved(t.kids[i]).type = "sequence"
        THEN ExpandedItems(Resolved(t.kids[i]), 1)
        ELSE ExpandedEvents(Resolved(t.kids[i])))
       \o ExpandedItems(t, i + 1)

\* pairs in insertion order, key before value; an insert directive's pairs are spliced in
ExpandedPairs(t, i) ==
  IF i > Len(t.kids) THEN <<>>
  ELSE (IF t.kids[i].key.type = "insert-expression"
        THEN IF Resolved(t.kids[i].value).type = "mapping"
             THEN ExpandedPairs(Resolved(t.kids[i].value), 1)
             ELSE <<>>
        ELSE <<Scalar(StrTok(Resolved(t.kids[i].key).lit))>>
             \o ExpandedEvents(Resolved(t.kids[i].value)))
       \o ExpandedPairs(t, i + 1)

\* the bytes the unraveler charged for the events it returned
RECURSIVE EmittedBytes(_, _)
EmittedBytes(events, from) ==
  IF from > Len(events) THEN 0
  ELSE (IF events[from].kind \in {"sequence-end", "mapping-end"} THEN 0
        ELSE ItemBytes(events[from]))
       + EmittedBytes(events, from + 1)

\* C4 as stated: for any unraveler traversal that reads every event to completion
\* (through readEnd), the depth counter is back at 0 and the bytes counter is back at
\* the value it had before the unraveler was created.
C4_BytesBackToInitial ==
  phase = "ended" => currentDepth = 0 /\ currentBytes = initialBytes

\* C4, amended: for any unraveler traversal read to completion (through readEnd) the
\* depth counter is back at 0; the bytes counter is at its value before the unraveler
\* was created, less the removeBytes the unraveler was given, plus the bytes of every
\* scalar, sequence start and mapping start returned to the caller, plus what a
\* conversion that was stopped by the byte limit had charged before it was stopped.
C4_DepthBackBytesKeepEmitted ==
  phase = "ended" =>
    /\ currentDepth = 0
    /\ currentBytes >= initialBytes - ctorRemoveBytes + EmittedBytes(emitted, 1)
    /\ "memory" \notin ErrorKinds =>
         currentBytes = initialBytes - ctorRemoveBytes + EmittedBytes(emitted, 1)

\* a traversal of a template whose bytes the caller held was read to its end
C4_Witness ==
  /\ phase = "ended"
  /\ ctorRemoveBytes > 0
  /\ Len(emitted) > 2
  /\ allExpand

\* C5: the sequence of events emitted by the unraveler with expand = true is exactly
\* the depth-first event sequence of the fully expanded tree: where no evaluation
\* failed and no validation error was recorded, the traversal is not broken off by an
\* unexpected state, the events emitted so far are the first events of the expanded
\* tree, and at the end they are all of them.
C5_EmitsExpandedTreeInOrder ==
  allExpand /\ errors = <<>> /\ evalFailed = 0 =>
    /\ thrown # "unexpected-state"
    /\ IsPrefix(emitted, ExpandedEvents(Resolved(template)))
    /\ phase = "ended" => emitted = ExpandedEvents(Resolved(template))

C6_Template == SeqTok(<<Build, ExprTok("extra"), Test>>)

C6_Extra == SeqTok(<<Lint, Package>>)

\* C6: items [build, ${{ extra }}, test] with extra = [lint, package] unravel with
\* expand = true to the four items build, lint, package, test of one sequence: the
\* traversal is not broken off by an unexpected state, and read to its end it emitted
\* the sequence start, the four items in that order, and the sequence end.
C6_SequenceInsertionInPlace ==
  template = C6_Template /\ env["extra"].tok = C6_Extra /\ ~env["extra"].fails /\ allExpand =>
    /\ thrown # "unexpected-state"
    /\ phase = "ended" =>
         emitted = <<SequenceStart, Scalar(Build), Scalar(Lint), Scalar(Package),
                     Scalar(Test), SequenceEnd>>

C7_Template ==
  MapTok(<<Pair(StrTok("a"), NumTok("1")), Pair(InsertTok, ExprTok("E")),
           Pair(StrTok("b"), NumTok("2"))>>)

C7_Inserted == MapTok(<<Pair(StrTok("c"), NumTok("3")), Pair(StrTok("a"), NumTok("9"))>>)

C7_Case ==
  /\ template = C7_Template
  /\ env["E"].tok = C7_Inserted
  /\ ~env["E"].fails
  /\ allExpand
  /\ phase = "ended"

\* C7 as stated: unraveling {a: 1, ${{ insert }}: E, b: 2} where E evaluates to
\* {c: 3, a: 9} emits exactly the pairs a:1, c:3, b:2 in that order with no nested
\* mapping start/end.
C7_ExistingKeyWins ==
  C7_Case =>
    emitted = <<MappingStart, Scalar(StrTok("a")), Scalar(NumTok("1")),
                Scalar(StrTok("c")), Scalar(NumTok("3")),
                Scalar(StrTok("b")), Scalar(NumTok("2")), MappingEnd>>

\* C7, amended: unraveling {a: 1, ${{ insert }}: E, b: 2} where E evaluates to
\* {c: 3, a: 9} emits the pairs a:1, c:3, a:9, b:2 in that order with no nested mapping
\* start/end: the inserted pairs appear at the directive's position, and the unraveler
\* emits the inserted duplicate a as well.
C7_InsertedPairsInPlace ==
  C7_Case =>
    emitted = <<MappingStart, Scalar(StrTok("a")), Scalar(NumTok("1")),
                Scalar(StrTok("c")), Scalar(NumTok("3")),
                Scalar(StrTok("a")), Scalar(NumTok("9")),
                Scalar(StrTok("b")), Scalar(NumTok("2")), MappingEnd>>

\* the mapping with the insertion was read to its end
C7_Witness == C7_Case /\ thrown = "none" /\ evalOk = 1

\* the mappings {a: 1, ${{ insert }}: V, b: 2} whose V is not a mapping: a literal, or
\* an expression that evaluates to a string, a sequence
C8_Case ==
  /\ allExpand
  /\ \/ template = MapTok(<<Pair(StrTok("a"), NumTok("1")), Pair(InsertTok, Lint),
                            Pair(StrTok("b"), NumTok("2"))>>)
     \/ template = C7_Template /\ ~env["E"].fails /\ env["E"].tok.type # "mapping"

C8_WithoutDirective ==
  <<MappingStart, Scalar(StrTok("a")), Scalar(NumTok("1")),
    Scalar(StrTok("b")), Scalar(NumTok("2")), MappingEnd>>

\* C8: when the value of an insert directive evaluates to anything other than a
\* mapping, a validation error is recorded on the context (once the traversal is past
\* the directive) and the unraveled result contains neither the directive key nor any
\* pair or value derived from it: the events are those of {a: 1, b: 2}.
C8_NonMappingInsertOmitted ==
  C8_Case =>
    /\ IsPrefix(emitted, C8_WithoutDirective)
    /\ Len(emitted) > 3 => errors # <<>>
    /\ phase = "ended" => emitted = C8_WithoutDirective

\* a mapping whose directive's expression gave a sequence was read to its end
C8_Witness ==
  /\ C8_Case
  /\ phase = "ended"
  /\ template = C7_Template
  /\ env["E"].tok.type = "sequence"
  /\ "expected-mapping" \in ErrorKinds

\* C9: with expand = true, an expression whose evaluation fails never aborts the
\* traversal: where the only evaluations were failed ones, the traversal is not broken
\* off by an unexpected state.
C9_FailedExpressionNeverAborts ==
  allExpand /\ evalOk = 0 /\ evalFailed > 0 => thrown # "unexpected-state"

\* C10: when the byte limit or the depth limit is exceeded during unraveling, the
\* error is never recovered locally: it is not on the context as a validation error
\* with the unraveler still reading.
C10_LimitErrorNeverRecorded ==
  ~(ErrorKinds \cap {"memory", "depth"} # {} /\ thrown = "none")

(***************************************************************************)
(* The reader                                                              *)
(***************************************************************************)
\* the mappings of a token tree, the mappings nested in values included
MappingsOf(t) == SelectSeq(traverse(t, TRUE), LAMBDA n : n.type = "mapping")

\* keys a and b of a mapping are equal when case is ignored
SameKey(mapping, a, b) ==
  /\ mapping.kids[a].key.type = mapping.kids[b].key.type
  /\ toUpperCase(mapping.kids[a].key.lit) = toUpperCase(mapping.kids[b].key.lit)

\* readTemplate has read the generated mapping with these keys against a definition
\* that permits a mapping
ReadFlat(keys) ==
  /\ readerPhase = "read"
  /\ objectEvents = documentEvents(FlatMapping(keys))
  /\ getDefinitionsOfType(readerType, "mapping") # <<>>

\* parseScalar leaves the key a literal under the definition read against
LiteralKey(key) ==
  ~isExpression(parseScalar([exc |-> "none", errors |-> <<>>], StrTok(key),
                            DefinitionInfo(<<>>, readerType).allowedContext).value)

\* the i-th key is a literal key that an earlier literal key equals when case is ignored
DuplicateAt(keys, i) ==
  /\ LiteralKey(keys[i])
  /\ \E j \in 1..(i - 1) : LiteralKey(keys[j]) /\ toUpperCase(keys[j]) = toUpperCase(keys[i])

AlreadyDefined == {"'" \o key \o "' is already defined" : key \in SampleKeys}

FlatKeys == UNION {[1..n -> SampleKeys] : n \in 0..MaxPairs}

\* C11 as stated: no two keys of a mapping produced by the reader are equal when
\* case is ignored, whatever the kind of the keys.
C11_NoTwoKeysEqual ==
  readerPhase = "read" =>
    \A i \in 1..Len(MappingsOf(readerValue)) :
      \A a, b \in 1..Len(MappingsOf(readerValue)[i].kids) :
        a # b => ~SameKey(MappingsOf(readerValue)[i], a, b)

\* C11: no two literal keys of a mapping produced by the reader are equal when case
\* is ignored (expression keys are not compared: equal ones are all kept); a literal
\* key that repeats an earlier literal key of its mapping is reported as already
\* defined, once, and its value is not in the mapping.
C11_NoTwoLiteralKeysEqual ==
  /\ readerPhase = "read" =>
       \A i \in 1..Len(MappingsOf(readerValue)) :
         \A a, b \in 1..Len(MappingsOf(readerValue)[i].kids) :
           (a # b /\ isLiteral(MappingsOf(readerValue)[i].kids[a].key))
             => ~SameKey(MappingsOf(readerValue)[i], a, b)
  /\ \A keys \in FlatKeys :
       ReadFlat(keys) =>
         /\ \A i \in 1..Len(keys) :
              DuplicateAt(keys, i) =>
                /\ \A a \in 1..Len(readerValue.kids) :
                     readerValue.kids[a].value # SampleValue(i)
                /\ "'" \o keys[i] \o "' is already defined" \in
                     {errors[e] : e \in 1..Len(errors)}
         /\ Cardinality({e \in 1..Len(errors) : errors[e] \in AlreadyDefined})
              = Cardinality({i \in 1..Len(keys) : DuplicateAt(keys, i)})

\* a key was met again in another case: it was reported and only the first pair is kept
C11_Witness ==
  /\ ReadFlat(<<"run", "Run">>)
  /\ readerType = "runStep"
  /\ errors = <<"'Run' is already defined">>
  /\ readerValue = FlatMapping(<<"run">>)

\* the collection of the kind of value without its children
EmptyOf(value) == IF value.type = "sequence" THEN SeqTok(<<>>) ELSE MapTok(<<>>)

\* C12: when the reader meets a sequence or a mapping the definition does not
\* permit (here as the value of the string property run), it records one
\* diagnostic, consumes the events of that sub-tree up to its end, and reads the
\* siblings that follow (the property name) as usual.
C12_UnexpectedCollectionSkipped ==
  \A value \in SampleCollections :
    (/\ readerPhase = "read"
     /\ readerType = "runStep"
     /\ objectEvents = documentEvents(StepRunning(value)))
    => /\ readerValue = StepRunning(EmptyOf(value))
       /\ errors = <<IF value.type = "sequence" THEN "A sequence was not expected"
                     ELSE "A mapping was not expected">>
       /\ readerPos = Len(objectEvents) + 1

\* C13: after a mapping was read against one surviving mapping definition and
\* without an expression key, "Required property is missing" is recorded for
\* exactly the required properties that were not read as a property of the mapping.
C13_MissingRequiredReported ==
  \A keys \in FlatKeys :
    (/\ ReadFlat(keys)
     /\ readerType \in {"runStep", "job"}
     /\ \A i \in 1..Len(keys) : LiteralKey(keys[i]))
    => \A p \in 1..Len(Schema[readerType].properties) :
         Schema[readerType].properties[p].required =>
           (("Required property is missing: " \o Schema[readerType].properties[p].name)
               \in {errors[e] : e \in 1..Len(errors)})
            <=> ~\E a \in 1..Len(readerValue.kids) :
                   readerValue.kids[a].key.lit = Schema[readerType].properties[p].name

(***************************************************************************)
(* Expressions: canonical values (src/expressions/nodes.ts)                *)
(*                                                                         *)
(* A canonical value is a record of one shape.  A number is n, or n + 0.5  *)
(* when half holds; the text s of a number is "" for a finite number and   *)
(* "NaN" or "Infinity" otherwise.  A string carries its text in s and, in  *)
(* items, the JSON lexemes the text consists of when it was written by     *)
(* toJson or is one of JsonTexts.  An array carries its elements in items, *)
(* an object its [key, value] pairs; ref is the identity of the JavaScript *)
(* object behind a collection (=== compares it).  An object whose s is     *)
(* "unknown" is a JavaScript object that is no ReadOnlyArrayCompatible and *)
(* no ReadOnlyObjectCompatible.                                            *)
(***************************************************************************)
CanonicalValue(kind, b, n, half, s, items, ref) ==
  [kind |-> kind, b |-> b, n |-> n, half |-> half, s |-> s, items |-> items, ref |-> ref]

NullValue == CanonicalValue("Null", FALSE, 0, FALSE, "", <<>>, <<>>)
BooleanValue(b) == CanonicalValue("Boolean", b, 0, FALSE, "", <<>>, <<>>)
NumberValue(n, half) == CanonicalValue("Number", FALSE, n, half, "", <<>>, <<>>)
NaN == CanonicalValue("Number", FALSE, 0, FALSE, "NaN", <<>>, <<>>)
Infinity == CanonicalValue("Number", FALSE, 0, FALSE, "Infinity", <<>>, <<>>)
StringValue(s) == CanonicalValue("String", FALSE, 0, FALSE, s, <<>>, <<>>)
JsonValue(s, lexemes) == CanonicalValue("String", FALSE, 0, FALSE, s, lexemes, <<>>)
ArrayValue(items, ref) == CanonicalValue("Array", FALSE, 0, FALSE, "", items, ref)
ObjectValue(pairs, ref) == CanonicalValue("Object", FALSE, 0, FALSE, "", pairs, ref)
UnknownValue(items, ref) == CanonicalValue("Object", FALSE, 0, FALSE, "unknown", items, ref)
KeyValue(key, value) == [key |-> key, value |-> value]

\* the largest whole number among the sample numbers besides INT32_MAX
MaxNumber == 3

\* the numbers of the model
SampleNumbers ==
  {NumberValue(n, half) : n \in -2..MaxNumber, half \in BOOLEAN}
    \cup {NumberValue(INT32_MAX, FALSE), NaN, Infinity}

isNaN(v) == v.kind = "Number" /\ v.s = "NaN"

isFinite(v) == v.kind = "Number" /\ v.s = ""

DecimalDigits == <<"0", "1", "2", "3", "4", "5", "6", "7", "8", "9">>

RECURSIVE digits(_)
digits(n) ==
  IF n < 10 THEN DecimalDigits[n + 1]
  ELSE digits(n \div 10) \o DecimalDigits[(n % 10) + 1]

\* Number.prototype.toString of a number of the model: -1.5 is n = -2 and half
numberToString(v) ==
  IF v.s # "" THEN v.s
  ELSE IF v.n < 0
    THEN "-" \o digits(IF v.half THEN -v.n - 1 ELSE -v.n) \o (IF v.half THEN ".5" ELSE "")
    ELSE digits(v.n) \o (IF v.half THEN ".5" ELSE "")

\* Number(str): the empty text is 0, the text of a number is that number, any other text is NaN
parseNumber(str) ==
  IF str = "" THEN NumberValue(0, FALSE)
  ELSE IF \E v \in SampleNumbers : numberToString(v) = str
    THEN CHOOSE v \in SampleNumbers : numberToString(v) = str
    ELSE NaN

testPrimitive(kind) == kind \in {"Null", "Boolean", "Number", "String"}

isPrimitive(v) == testPrimitive(v.kind)

convertToNumber(v) ==
  CASE v.kind = "Null" -> NumberValue(0, FALSE)
    [] v.kind = "Boolean" -> NumberValue(IF v.b THEN 1 ELSE 0, FALSE)
    [] v.kind = "Number" -> v
    [] v.kind = "String" -> parseNumber(v.s)
    [] OTHER -> NaN

convertToString(v) ==
  CASE v.kind = "Null" -> ""
    [] v.kind = "Boolean" -> (IF v.b THEN "true" ELSE "false")
    [] v.kind = "Number" -> numberToString(v)
    [] v.kind = "String" -> v.s
    [] OTHER -> v.kind

\* the collection interface of a value, "" when the value has none
getCollectionInterface(v) ==
  IF v.kind \in {"Array", "Object"} /\ v.s # "unknown" THEN v.kind ELSE ""

\* nodes.ts 386-409: the Boolean case returns the value itself
isFalsy(v) ==
  CASE v.kind = "Null" -> TRUE
    [] v.kind = "Boolean" -> v.b
    [] v.kind = "Number" -> (isFinite(v) /\ v.n = 0 /\ ~v.half) \/ isNaN(v)
    [] v.kind = "String" -> v.s = ""
    [] OTHER -> FALSE

isTruthy(v) == ~isFalsy(v)

coerceTypesNone(left, right) == <<left, right>>

\* nodes.ts 703-764: the pair of operands after coercion
RECURSIVE coerceTypes(_, _)
coerceTypes(left, right) ==
  IF left.kind = right.kind THEN <<left, right>>
  ELSE IF left.kind = "Number" /\ right.kind = "String" THEN <<left, convertToNumber(right)>>
  ELSE IF left.kind = "String" /\ right.kind = "Number" THEN <<convertToNumber(left), right>>
  ELSE IF left.kind \in {"Boolean", "Null"} THEN coerceTypes(convertToNumber(left), right)
  ELSE IF right.kind \in {"Boolean", "Null"} THEN coerceTypes(left, convertToNumber(right))
  ELSE <<left, right>>

sameKindEqual(left, right) ==
  CASE left.kind # right.kind -> FALSE
    [] left.kind = "Null" -> TRUE
    [] left.kind = "Number" ->
         IF isNaN(left) \/ isNaN(right) THEN FALSE
         ELSE left.n = right.n /\ left.half = right.half /\ left.s = right.s
    [] left.kind = "String" -> toUpperCase(left.s) = toUpperCase(right.s)
    [] left.kind = "Boolean" -> left.b = right.b
    [] left.kind \in {"Object", "Array"} -> left.ref = right.ref
    [] OTHER -> FALSE

abstractEqualOfKinds(left, right) ==
  coerceTypes(left, right)[1].kind = coerceTypes(left, right)[2].kind

abstractEqual(left, right) ==
  sameKindEqual(coerceTypes(left, right)[1], coerceTypes(left, right)[2])

(***************************************************************************)
(* toJson (src/unnamed/part_009) and fromJson                              *)
(* (src/expressions/functions/from-json.ts, src/unnamed/part_011).         *)
(* A JSON text is modelled by its characters and by the sequence of its    *)
(* lexemes; JSON.parse works on the lexemes.                               *)
(***************************************************************************)
Lexeme(lex, text) == [lex |-> lex, text |-> text]

Piece(text, lexemes) == [text |-> text, lexemes |-> lexemes]

concat(a, b) == Piece(a.text \o b.text, a.lexemes \o b.lexemes)

RECURSIVE indent(_, _)
indent(level, str) == IF level = 0 THEN "" ELSE str \o indent(level - 1, str)

\* JSON.stringify of a string of the model (none needs an escape)
stringify(s) == Piece("\"" \o s \o "\"", <<Lexeme("string", s)>>)

\* the enumerator on top of the ancestors: ancestors.length, its kind, its isFirst
Ancestors(level, kind, isFirst) == [level |-> level, kind |-> kind, isFirst |-> isFirst]

NoAncestors == Ancestors(0, "", FALSE)

prefixValueWithoutComma(value, ancestors, isObjectKey) ==
  IF ~isObjectKey /\ ancestors.kind = "Object"
    THEN concat(Piece(": ", <<Lexeme(":", "")>>), value)
  ELSE IF ancestors.level > 0
    THEN concat(Piece("\n" \o indent(ancestors.level, "  "), <<>>), value)
  ELSE value

prefixValue(value, ancestors, isObjectKey) ==
  IF ~isObjectKey /\ ancestors.kind = "Object"
    THEN concat(Piece(": ", <<Lexeme(":", "")>>), value)
  ELSE IF ancestors.level > 0
    THEN concat(Piece((IF ancestors.isFirst THEN "" ELSE ",") \o "\n" \o indent(ancestors.level, "  "),
                      IF ancestors.isFirst THEN <<>> ELSE <<Lexeme(",", "")>>),
                value)
  ELSE value

writeValue(value, ancestors) ==
  prefixValue(
    CASE value.kind = "Null" -> Piece("null", <<Lexeme("null", "")>>)
      [] value.kind = "Boolean" ->
           (IF value.b THEN Piece("true", <<Lexeme("true", "")>>)
            ELSE Piece("false", <<Lexeme("false", "")>>))
      [] value.kind = "Number" ->
           Piece(convertToString(value), <<Lexeme("number", convertToString(value))>>)
      [] value.kind = "String" -> stringify(value.s)
      [] OTHER -> Piece("{}", <<Lexeme("{", ""), Lexeme("}", "")>>),
    ancestors, FALSE)

writeArrayEnd(level) == Piece("\n" \o indent(level, "  ") \o "]", <<Lexeme("]", "")>>)

writeObjectEnd(level) == Piece("\n" \o indent(level, "  ") \o "}", <<Lexeme("}", "")>>)

\* the traversal of ToJson.evaluateCore, written as a descent: the pieces pushed for one value
RECURSIVE writeJson(_, _), writeItems(_, _, _), writePairs(_, _, _)
writeJson(value, ancestors) ==
  IF getCollectionInterface(value) = "Array" THEN
    IF Len(value.items) > 0
      THEN concat(prefixValue(Piece("[", <<Lexeme("[", "")>>), ancestors, FALSE),
                  concat(writeItems(value.items, 1, ancestors.level + 1),
                         writeArrayEnd(ancestors.level)))
      ELSE prefixValue(Piece("[]", <<Lexeme("[", ""), Lexeme("]", "")>>), ancestors, FALSE)
  ELSE IF getCollectionInterface(value) = "Object" THEN
    IF Len(value.items) > 0
      THEN concat(prefixValue(Piece("{", <<Lexeme("{", "")>>), ancestors, FALSE),
                  concat(writePairs(value.items, 1, ancestors.level + 1),
                         writeObjectEnd(ancestors.level)))
      ELSE prefixValue(Piece("{}", <<Lexeme("{", ""), Lexeme("}", "")>>), ancestors, FALSE)
  ELSE writeValue(value, ancestors)

writeItems(items, i, level) ==
  IF i > Len(items) THEN Piece("", <<>>)
  ELSE concat(writeJson(items[i], Ancestors(level, "Array", i = 1)),
              writeItems(items, i + 1, level))

writePairs(pairs, i, level) ==
  IF i > Len(pairs) THEN Piece("", <<>>)
  ELSE concat(prefixValue(stringify(pairs[i].key), Ancestors(level, "Object", i = 1), TRUE),
              concat(writeJson(pairs[i].value, Ancestors(level, "Object", i = 1)),
                     writePairs(pairs, i + 1, level)))

\* the text of a finite number, the only number texts JSON has
jsonNumber(text) == \E v \in SampleNumbers : isFinite(v) /\ numberToString(v) = text

\* the lexemes of a text of the model that toJson did not write
jsonLexemes(text) ==
  CASE text = "" -> <<>>
    [] text = "[]" -> <<Lexeme("[", ""), Lexeme("]", "")>>
    [] text = "{}" -> <<Lexeme("{", ""), Lexeme("}", "")>>
    [] text \in {"null", "true", "false"} -> <<Lexeme(text, "")>>
    [] OTHER -> <<Lexeme("number", text)>>

Parsed(ok, value, next) == [ok |-> ok, value |-> value, next |-> next]

SyntaxError == Parsed(FALSE, NullValue, 0)

\* an array index among property names: these come first, in ascending order, in a JavaScript object
isArrayIndex(key) ==
  /\ key # ""
  /\ parseNumber(key).s = ""
  /\ parseNumber(key).n >= 0
  /\ ~parseNumber(key).half

comesBefore(key, other) ==
  isArrayIndex(key) /\ (~isArrayIndex(other) \/ parseNumber(key).n < parseNumber(other).n)

\* object[key] = value on a plain JavaScript object whose properties are pairs
RECURSIVE jsSet(_, _, _)
jsSet(pairs, key, value) ==
  IF pairs = <<>> THEN <<KeyValue(key, value)>>
  ELSE IF pairs[1].key = key THEN <<KeyValue(key, value)>> \o Tail(pairs)
  ELSE IF comesBefore(key, pairs[1].key) /\ ~\E i \in 1..Len(pairs) : pairs[i].key = key
    THEN <<KeyValue(key, value)>> \o pairs
  ELSE <<pairs[1]>> \o jsSet(Tail(pairs), key, value)

\* JSON.parse over lexemes
RECURSIVE parseValue(_, _), parseElements(_, _, _), parseMembers(_, _, _)
parseValue(lx, i) ==
  IF i > Len(lx) THEN SyntaxError
  ELSE CASE lx[i].lex = "null" -> Parsed(TRUE, NullValue, i + 1)
    [] lx[i].lex = "true" -> Parsed(TRUE, BooleanValue(TRUE), i + 1)
    [] lx[i].lex = "false" -> Parsed(TRUE, BooleanValue(FALSE), i + 1)
    [] lx[i].lex = "number" ->
         (IF jsonNumber(lx[i].text) THEN Parsed(TRUE, parseNumber(lx[i].text), i + 1)
          ELSE SyntaxError)
    [] lx[i].lex = "string" -> Parsed(TRUE, StringValue(lx[i].text), i + 1)
    [] lx[i].lex = "[" ->
         (IF i < Len(lx) /\ lx[i + 1].lex = "]" THEN Parsed(TRUE, ArrayValue(<<>>, <<>>), i + 2)
          ELSE parseElements(lx, i + 1, <<>>))
    [] lx[i].lex = "{" ->
         (IF i < Len(lx) /\ lx[i + 1].lex = "}" THEN Parsed(TRUE, ObjectValue(<<>>, <<>>), i + 2)
          ELSE parseMembers(lx, i + 1, <<>>))
    [] OTHER -> SyntaxError

elementsNext(lx, x, items) ==
  IF ~x.ok \/ x.next > Len(lx) THEN SyntaxError
  ELSE IF lx[x.next].lex = "," THEN parseElements(lx, x.next + 1, Append(items, x.value))
  ELSE IF lx[x.next].lex = "]" THEN Parsed(TRUE, ArrayValue(Append(items, x.value), <<>>), x.next + 1)
  ELSE SyntaxError

parseElements(lx, i, items) == elementsNext(lx, parseValue(lx, i), items)

membersNext(lx, key, x, pairs) ==
  IF ~x.ok \/ x.next > Len(lx) THEN SyntaxError
  ELSE IF lx[x.next].lex = "," THEN parseMembers(lx, x.next + 1, jsSet(pairs, key, x.value))
  ELSE IF lx[x.next].lex = "}"
    THEN Parsed(TRUE, ObjectValue(jsSet(pairs, key, x.value), <<>>), x.next + 1)
  ELSE SyntaxError

parseMembers(lx, i, pairs) ==
  IF i + 1 > Len(lx) \/ lx[i].lex # "string" \/ lx[i + 1].lex # ":" THEN SyntaxError
  ELSE membersNext(lx, lx[i].text, parseValue(lx, i + 2), pairs)

jsonParseEnd(lx, x) == IF x.ok /\ x.next = Len(lx) + 1 THEN x ELSE SyntaxError

jsonParse(lx) == jsonParseEnd(lx, parseValue(lx, 1))

\* part_011 191-197: the depth beyond which fromObjectInternal throws
MAX_OBJECT_DEPTH == 100

RECURSIVE depthOf(_), depthOfItems(_, _, _)
depthOf(object) ==
  IF object.kind \in {"Array", "Object"} THEN 1 + depthOfItems(object, 1, 0) ELSE 1

depthOfItems(object, i, deepest) ==
  IF i > Len(object.items) THEN deepest
  ELSE depthOfItems(object, i + 1,
         IF depthOf(IF object.kind = "Array" THEN object.items[i] ELSE object.items[i].value) > deepest
           THEN depthOf(IF object.kind = "Array" THEN object.items[i] ELSE object.items[i].value)
           ELSE deepest)

hasOwnProperty(object, key) == \E i \in 1..Len(object.items) : object.items[i].key = key

\* object[key] of a plain JavaScript object; an absent property is undefined, which becomes null
getProperty(object, key) ==
  IF hasOwnProperty(object, key)
    THEN object.items[CHOOSE i \in 1..Len(object.items) : object.items[i].key = key].value
    ELSE NullValue

\* the number of i = 0, 1, ... with i < length, length a primitive
countBelow(length) ==
  IF ~isFinite(convertToNumber(length)) THEN 0
  ELSE IF convertToNumber(length).n < 0 THEN 0
  ELSE convertToNumber(length).n + (IF convertToNumber(length).half THEN 1 ELSE 0)

getLookupKey(key) == toUpperCase(key)

\* DictionaryContextData.set
RECURSIVE dictionarySet(_, _, _)
dictionarySet(d, key, value) ==
  IF d = <<>> THEN <<KeyValue(key, value)>>
  ELSE IF getLookupKey(d[1].key) = getLookupKey(key) THEN <<KeyValue(d[1].key, value)>> \o Tail(d)
  ELSE <<d[1]>> \o dictionarySet(Tail(d), key, value)

\* part_011 186-237, without the depth check; ref is the identity of the created collection
RECURSIVE fromObjectInternal(_, _), fromPairs(_, _, _, _)
fromObjectInternal(object, ref) ==
  IF object.kind = "Array" THEN
    ArrayValue([i \in 1..Len(object.items) |-> fromObjectInternal(object.items[i], ref \o <<i>>)], ref)
  ELSE IF object.kind = "Object" THEN
    IF hasOwnProperty(object, "length")
      THEN ArrayValue([i \in 1..countBelow(getProperty(object, "length")) |->
                         fromObjectInternal(getProperty(object, digits(i - 1)), ref \o <<i>>)], ref)
      ELSE ObjectValue(fromPairs(object.items, 1, <<>>, ref), ref)
  ELSE object

fromPairs(pairs, i, d, ref) ==
  IF i > Len(pairs) THEN d
  ELSE fromPairs(pairs, i + 1,
                 dictionarySet(d, pairs[i].key, fromObjectInternal(pairs[i].value, ref \o <<i>>)),
                 ref)

(***************************************************************************)
(* Expression trees: parsing (src/unnamed/part_007) and evaluation         *)
(* (src/expressions/nodes.ts, operators/, functions/)                      *)
(***************************************************************************)
ExpressionNode(type, name, value, parameters) ==
  [type |-> type, name |-> name, value |-> value, parameters |-> parameters]

LiteralNode(value) == ExpressionNode("Literal", value.kind, value, <<>>)

\* a named context together with the value the evaluation state holds for it
NamedContextNode(name, value) == ExpressionNode("NamedContext", name, value, <<>>)

FunctionNode(name, parameters) == ExpressionNode("Function", name, NullValue, parameters)

ContainerNode(type, parameters) == ExpressionNode(type, type, NullValue, parameters)

MAX_PARAMETERS == 255

FunctionInfo(name, minParameters, maxParameters) ==
  [name |-> name, minParameters |-> minParameters, maxParameters |-> maxParameters]

WELL_KNOWN_FUNCTIONS ==
  {FunctionInfo("contains", 2, 2), FunctionInfo("endsWith", 2, 2),
   FunctionInfo("format", 1, MAX_PARAMETERS), FunctionInfo("join", 1, 2),
   FunctionInfo("startsWith", 2, 2), FunctionInfo("toJson", 1, 1),
   FunctionInfo("fromJson", 1, 1)}

\* no extension functions are passed to createExpressionTree
extensionFunctions == {}

\* the function infos found for a name, none or one
getFunctionInfo(name) ==
  {f \in WELL_KNOWN_FUNCTIONS \cup extensionFunctions : toUpperCase(f.name) = toUpperCase(name)}

\* the parse error createTree throws for a tree, "" when it throws none
RECURSIVE parseError(_), parseErrorOf(_, _)
parseError(node) ==
  IF node.type = "Function" /\ getFunctionInfo(node.name) = {} THEN "UnrecognizedFunction"
  ELSE IF parseErrorOf(node.parameters, 1) # "" THEN parseErrorOf(node.parameters, 1)
  ELSE IF node.type # "Function" THEN ""
  ELSE IF \E f \in getFunctionInfo(node.name) : Len(node.parameters) < f.minParameters
    THEN "TooFewParameters"
  ELSE IF \E f \in getFunctionInfo(node.name) : Len(node.parameters) > f.maxParameters
    THEN "TooManyParameters"
  ELSE ""

parseErrorOf(parameters, i) ==
  IF i > Len(parameters) THEN ""
  ELSE IF parseError(parameters[i]) # "" THEN parseError(parameters[i])
  ELSE parseErrorOf(parameters, i + 1)

\* the state of one evaluation: the next object identity, the nodes whose evaluation began, the exception thrown
EvaluationContext == [next |-> 1, trace |-> <<>>, exc |-> "none"]

EvaluationResult(st, value) == [st |-> st, value |-> value]

began(st, node) == [st EXCEPT !.trace = Append(@, node)]

created(st) == [st EXCEPT !.next = @ + 1]

throwing(st, exc) == [st EXCEPT !.exc = exc]

floor(v) == IF isFinite(v) THEN [v EXCEPT !.half = FALSE] ELSE v

integerIndexWithoutFloor(result) == convertToNumber(result)

\* index.ts 283-300: both assignments of null are overwritten by the last assignment
integerIndex(result) == floor(convertToNumber(result))

hasIntegerIndex(result) == TRUE

\* integerIndex < length
lessThan(index, length) == isFinite(index) /\ index.n < length

\* this.a[index] ?? null
getArrayItem(array, index) ==
  IF isFinite(index) /\ ~index.half /\ index.n >= 0 /\ index.n < Len(array.items)
    THEN array.items[index.n + 1]
    ELSE NullValue

handleArray(array, x) ==
  IF x.st.exc # "none" THEN x
  ELSE IF hasIntegerIndex(x.value) /\ lessThan(integerIndex(x.value), Len(array.items))
    THEN EvaluationResult(x.st, getArrayItem(array, integerIndex(x.value)))
  ELSE EvaluationResult(x.st, NullValue)

hasObjectKey(object, key) ==
  \E i \in 1..Len(object.items) : getLookupKey(object.items[i].key) = getLookupKey(key)

getObjectValue(object, key) ==
  object.items[CHOOSE i \in 1..Len(object.items) :
                 getLookupKey(object.items[i].key) = getLookupKey(key)].value

handleObject(object, x) ==
  IF x.st.exc # "none" THEN x
  ELSE IF isPrimitive(x.value) /\ hasObjectKey(object, convertToString(x.value))
    THEN EvaluationResult(x.st, getObjectValue(object, convertToString(x.value)))
  ELSE EvaluationResult(x.st, NullValue)

\* join.ts 46-58: the separator and the items pushed by the loop, which starts at 0
RECURSIVE joinLoop(_, _, _)
joinLoop(array, separator, i) ==
  IF i >= Len(array.items) THEN <<>>
  ELSE <<StringValue(separator), StringValue(convertToString(array.items[i + 1]))>>
         \o joinLoop(array, separator, i + 1)

joinSeparator(x) == IF isPrimitive(x.value) THEN convertToString(x.value) ELSE ","

\* join.ts 66-69: the result is the array of pieces itself
joinResult(array, separator, st) ==
  EvaluationResult(created(st),
    UnknownValue(<<StringValue(convertToString(array.items[1]))>> \o joinLoop(array, separator, 0),
                 <<st.next>>))

joinMore(array, x) ==
  IF x.st.exc # "none" THEN x ELSE joinResult(array, joinSeparator(x), x.st)

fromJsonParsed(st, parsed) ==
  IF ~parsed.ok THEN EvaluationResult(throwing(st, "SyntaxError"), NullValue)
  ELSE IF depthOf(parsed.value) > MAX_OBJECT_DEPTH
    THEN EvaluationResult(throwing(st, "Reached max depth"), NullValue)
  ELSE IF parsed.value.kind \in {"Array", "Object"}
    THEN EvaluationResult(created(st), fromObjectInternal(parsed.value, <<st.next>>))
  ELSE EvaluationResult(st, parsed.value)

\* from-json.ts 10-19
fromJson(x) ==
  IF x.st.exc # "none" THEN x
  ELSE fromJsonParsed(x.st,
         jsonParse(IF x.value.kind = "String" /\ x.value.items # <<>> THEN x.value.items
                   ELSE jsonLexemes(convertToString(x.value))))

toJsonPiece(st, piece) == EvaluationResult(st, JsonValue(piece.text, piece.lexemes))

toJson(x) ==
  IF x.st.exc # "none" THEN x ELSE toJsonPiece(x.st, writeJson(x.value, NoAncestors))

notResult(x) ==
  IF x.st.exc # "none" THEN x ELSE EvaluationResult(x.st, BooleanValue(isFalsy(x.value)))

equalResult(left, x) ==
  IF x.st.exc # "none" THEN x
  ELSE EvaluationResult(x.st, BooleanValue(abstractEqual(left.value, x.value)))

RECURSIVE evaluate(_, _), evaluateCore(_, _), andFrom(_, _, _), orFrom(_, _, _),
          equalRight(_, _), indexOf(_, _), joinOf(_, _)

\* nodes.ts 83-140, without the memory accounting, which the evaluation memory section covers
evaluate(node, st) ==
  IF st.exc # "none" THEN EvaluationResult(st, NullValue)
  ELSE evaluateCore(node, began(st, node))

andNext(parameters, i, x) ==
  IF x.st.exc # "none" \/ isFalsy(x.value) \/ i = Len(parameters) THEN x
  ELSE andFrom(parameters, i + 1, x.st)

\* and.ts 33-46
andFrom(parameters, i, st) == andNext(parameters, i, evaluate(parameters[i], st))

orNext(parameters, i, x) ==
  IF x.st.exc # "none" \/ isTruthy(x.value) \/ i = Len(parameters) THEN x
  ELSE orFrom(parameters, i + 1, x.st)

\* or.ts 33-46
orFrom(parameters, i, st) == orNext(parameters, i, evaluate(parameters[i], st))

\* equal.ts 26-33
equalRight(node, left) ==
  IF left.st.exc # "none" THEN left
  ELSE equalResult(left, evaluate(node.parameters[2], left.st))

\* index.ts 40-85, for an index that is no wildcard and a collection that is no filtered array
indexOf(node, left) ==
  IF left.st.exc # "none" THEN left
  ELSE IF getCollectionInterface(left.value) = "Array"
    THEN handleArray(left.value, evaluate(node.parameters[2], left.st))
  ELSE IF getCollectionInterface(left.value) = "Object"
    THEN handleObject(left.value, evaluate(node.parameters[2], left.st))
  ELSE EvaluationResult(left.st, NullValue)

\* join.ts 16-81
joinOf(node, items) ==
  IF items.st.exc # "none" THEN items
  ELSE IF getCollectionInterface(items.value) = "Array" THEN
    IF Len(items.value.items) = 0
      THEN EvaluationResult(created(items.st), UnknownValue(<<>>, <<items.st.next>>))
    ELSE IF Len(items.value.items) > 1 /\ Len(node.parameters) > 1
      THEN joinMore(items.value, evaluate(node.parameters[2], items.st))
    ELSE IF Len(items.value.items) > 1 THEN joinResult(items.value, ",", items.st)
    ELSE EvaluationResult(created(items.st),
           UnknownValue(<<StringValue(convertToString(items.value.items[1]))>>, <<items.st.next>>))
  ELSE IF isPrimitive(items.value)
    THEN EvaluationResult(items.st, StringValue(convertToString(items.value)))
  ELSE EvaluationResult(items.st, StringValue(""))

evaluateCore(node, st) ==
  CASE node.type = "Literal" -> EvaluationResult(st, node.value)
    [] node.type = "NamedContext" -> EvaluationResult(st, node.value)
    [] node.type = "And" -> andFrom(node.parameters, 1, st)
    [] node.type = "Or" -> orFrom(node.parameters, 1, st)
    [] node.type = "Not" -> notResult(evaluate(node.parameters[1], st))
    [] node.type = "Equal" -> equalRight(node, evaluate(node.parameters[1], st))
    [] node.type = "Index" -> indexOf(node, evaluate(node.parameters[1], st))
    [] node.type = "Function" /\ toUpperCase(node.name) = "JOIN" ->
         joinOf(node, evaluate(node.parameters[1], st))
    [] node.type = "Function" /\ toUpperCase(node.name) = "TOJSON" ->
         toJson(evaluate(node.parameters[1], st))
    [] node.type = "Function" /\ toUpperCase(node.name) = "FROMJSON" ->
         fromJson(evaluate(node.parameters[1], st))
    \* contains, endsWith, format and startsWith are parsed but never evaluated here
    [] OTHER -> EvaluationResult(throwing(st, "no such node"), NullValue)

(***************************************************************************)
(* The expressions of the model and their evaluation                       *)
(***************************************************************************)
\* the most operands of an && or || and the most items of an array
MaxOperands == 3

MaxItems == 3

SeqsUpTo(S, n) == UNION {[1..k -> S] : k \in 0..n}

SamplePrimitives ==
  {NullValue, BooleanValue(TRUE), BooleanValue(FALSE), NumberValue(0, FALSE), NumberValue(1, FALSE),
   NumberValue(1, TRUE), NumberValue(-1, FALSE), NaN, Infinity,
   StringValue(""), StringValue("a"), StringValue("A"), StringValue("1")}

SampleOperands ==
  {NullValue, BooleanValue(TRUE), BooleanValue(FALSE), NumberValue(0, FALSE), StringValue("a")}

SampleItems == {StringValue("a"), NumberValue(1, FALSE), NullValue}

SampleIndexes ==
  SampleNumbers \cup {NullValue, BooleanValue(TRUE), StringValue("1"), StringValue("a"), StringValue("")}

SampleSeparators == {StringValue("-"), NumberValue(1, FALSE), NullValue}

\* the value of the named context c in the evaluation state
Named(value) == NamedContextNode("c", [value EXCEPT !.ref = <<0>>])

SampleArrays == {ArrayValue(items, <<>>) : items \in SeqsUpTo(SampleItems, MaxItems)}

\* objects as a dictionary that ignores case holds them, and as one that does not
SampleObjects ==
  {ObjectValue(<<>>, <<>>),
   ObjectValue(<<KeyValue("a", NumberValue(1, FALSE)), KeyValue("b", StringValue("a"))>>, <<>>),
   ObjectValue(<<KeyValue("b", NullValue), KeyValue("1", BooleanValue(TRUE))>>, <<>>),
   ObjectValue(<<KeyValue("a", NumberValue(1, FALSE)), KeyValue("A", NumberValue(2, FALSE))>>, <<>>),
   ObjectValue(<<KeyValue("length", NumberValue(1, FALSE))>>, <<>>),
   ObjectValue(<<KeyValue("a", ArrayValue(<<NumberValue(1, TRUE), ObjectValue(<<>>, <<0, 1, 2>>)>>, <<0, 1>>)),
                 KeyValue("b", ObjectValue(<<KeyValue("a", StringValue(""))>>, <<0, 2>>))>>, <<>>)}

SampleNested ==
  {ArrayValue(<<ArrayValue(<<>>, <<0, 1>>),
                ObjectValue(<<KeyValue("a", BooleanValue(FALSE))>>, <<0, 2>>)>>, <<>>),
   ArrayValue(<<NaN>>, <<>>),
   ArrayValue(<<NumberValue(-2, TRUE), NumberValue(INT32_MAX, FALSE)>>, <<>>)}

SampleValues == SamplePrimitives \cup SampleArrays \cup SampleObjects \cup SampleNested

\* expressions whose value is a collection created by the evaluation
SampleCreating ==
  {FunctionNode("fromJson", <<LiteralNode(StringValue("[]"))>>),
   FunctionNode("fromJson", <<LiteralNode(StringValue("{}"))>>),
   FunctionNode("fromJson", <<FunctionNode("toJson", <<Named(ArrayValue(<<NumberValue(1, FALSE)>>, <<>>))>>)>>),
   FunctionNode("join", <<Named(ArrayValue(<<StringValue("a")>>, <<>>))>>)}

Leaf(value) == IF isPrimitive(value) THEN LiteralNode(value) ELSE Named(value)

Expressions ==
  {ContainerNode("Equal", <<e, e>>) : e \in {Leaf(v) : v \in SampleValues} \cup SampleCreating}
    \cup {ContainerNode("Equal", <<LiteralNode(l), LiteralNode(r)>>) :
            l \in SampleOperands \cup {NumberValue(1, FALSE)}, r \in SamplePrimitives}
    \cup {ContainerNode("Not", <<Leaf(v)>>) : v \in SampleValues}
    \cup {ContainerNode(type, [i \in 1..Len(ps) |-> LiteralNode(ps[i])]) :
            type \in {"And", "Or"}, ps \in SeqsUpTo(SampleOperands, MaxOperands) \ {<<>>}}
    \cup {ContainerNode("Index", <<Named(a), LiteralNode(i)>>) : a \in SampleArrays, i \in SampleIndexes}
    \cup {FunctionNode("join", <<Leaf(v)>>) : v \in SampleValues}
    \cup {FunctionNode("join", <<Leaf(v), Leaf(s)>>) :
            v \in SampleArrays, s \in SampleSeparators \cup SampleNested}
    \cup {FunctionNode(name, <<LiteralNode(NumberValue(1, FALSE)), LiteralNode(StringValue("1"))>>) :
            name \in {"eq", "EQ", "join", "Join", "toJson"}}
    \cup {FunctionNode(name, <<>>) : name \in {"eq", "join", "fromJson", "contains"}}
    \cup {FunctionNode("fromJson", <<FunctionNode("toJson", <<Leaf(v)>>)>>) : v \in SampleValues}
    \cup {FunctionNode("fromJson", <<Leaf(v)>>) : v \in SamplePrimitives}

ExprInit ==
  /\ maxBytes = DEFAULT_MAX_MEMORY
  /\ maxDepth = DEFAULT_MAX_DEPTH
  /\ currentBytes = 0
  /\ currentDepth = 0
  /\ thrown = "none"
  /\ lastOp = "new"
  /\ lastAmount = 0
  /\ prevBytes = 0
  /\ prevDepth = 0
  /\ EvalIdle
  /\ UnravelIdle
  /\ ReaderIdle
  /\ TokenIdle
  /\ RestIdle
  /\ exprNode \in Expressions
  /\ exprResult = EvaluationResult(EvaluationContext, NullValue)
  /\ exprTrace = <<>>
  /\ exprPhase = "text"

\* createExpressionTree: the tree is built, or a parse error is thrown
CreateTree ==
  /\ exprPhase = "text"
  /\ exprPhase' = IF parseError(exprNode) = "" THEN "tree" ELSE "failed"
  /\ exprResult' = EvaluationResult(throwing(EvaluationContext, IF parseError(exprNode) = "" THEN "none" ELSE parseError(exprNode)), NullValue)
  /\ UNCHANGED <<exprNode, exprTrace>>
  /\ UNCHANGED <<memVars, evalVars, unravelVars, readerVars, tokenVars, restVars>>

evaluateTreeEnd(x) ==
  /\ exprResult' = x
  /\ exprTrace' = x.st.trace
  /\ exprPhase' = IF x.st.exc = "none" THEN "done" ELSE "thrown"

\* evaluateTree on the root node
EvaluateTree ==
  /\ exprPhase = "tree"
  /\ evaluateTreeEnd(evaluate(exprNode, EvaluationContext))
  /\ UNCHANGED exprNode
  /\ UNCHANGED <<memVars, evalVars, unravelVars, readerVars, tokenVars, restVars>>

ExprNext == CreateTree \/ EvaluateTree

SpecExpr == ExprInit /\ [][ExprNext]_vars

(***************************************************************************)
(* Expressions: properties                                                 *)
(***************************************************************************)
\* the value of an operand of the model evaluated on its own
valueOf(node) == evaluate(node, EvaluationContext).value

SelfEqual == exprNode.type = "Equal" /\ exprNode.parameters[1] = exprNode.parameters[2]

\* C14 as stated: E == E evaluates to true for every expression E, arrays and objects
\* included, except when E reduces to NaN, and then it evaluates to false.
C14_SelfEqualUnlessNaN ==
  (exprPhase = "done" /\ SelfEqual) =>
     exprResult.value = BooleanValue(~isNaN(valueOf(exprNode.parameters[1])))

\* C14: E == E evaluates to true when E reduces to a primitive other than NaN or to a
\* collection held by a named context (both evaluations give the same object); it evaluates
\* to false when E reduces to NaN or to a collection that each evaluation of E creates.
C14_SelfEqualSameReference ==
  (exprPhase = "done" /\ SelfEqual) =>
     exprResult.value =
       BooleanValue(/\ ~isNaN(valueOf(exprNode.parameters[1]))
                    /\ \/ isPrimitive(valueOf(exprNode.parameters[1]))
                       \/ exprNode.parameters[1].type = "NamedContext")

C14_Witness ==
  /\ exprPhase = "done"
  /\ SelfEqual
  /\ exprNode.parameters[1] \in SampleCreating
  /\ valueOf(exprNode.parameters[1]).kind = "Array"
  /\ exprResult.value = BooleanValue(FALSE)

FalsyValues == {NullValue, BooleanValue(FALSE), NumberValue(0, FALSE), NaN, StringValue("")}

\* C15: a value is falsy exactly when it is null, false, 0, NaN or the empty string
\* (!v, whose value is isFalsy of v, is true for exactly these values).
C15_FalsyExactly ==
  (exprPhase = "done" /\ exprNode.type = "Not") =>
     ((exprResult.value = BooleanValue(TRUE)) <=> (exprNode.parameters[1].value \in FalsyValues))

\* the position of the operand that decides an && (stop = falsy) or an || (stop = truthy)
RECURSIVE deciding(_, _, _)
deciding(parameters, i, stopOnFalsy) ==
  IF i = Len(parameters) \/ ((parameters[i].value \in FalsyValues) = stopOnFalsy) THEN i
  ELSE deciding(parameters, i + 1, stopOnFalsy)

\* C16: an N-ary && returns the value of its first falsy operand, or of its last operand,
\* and evaluates the operands up to that one in order and no later one; an N-ary || does
\* the same with the first truthy operand.
C16_ShortCircuit ==
  (exprPhase = "done" /\ exprNode.type \in {"And", "Or"}) =>
     /\ exprResult.value =
          exprNode.parameters[deciding(exprNode.parameters, 1, exprNode.type = "And")].value
     /\ exprTrace = <<exprNode>> \o
          SubSeq(exprNode.parameters, 1, deciding(exprNode.parameters, 1, exprNode.type = "And"))

\* the element the claim names for an index that converts to the number n
elementAt(array, n) ==
  IF isNaN(n) \/ ~isFinite(n) \/ n.n < 0 \/ n.n >= Len(array.items) THEN NullValue
  ELSE array.items[n.n + 1]

\* C17: indexing an array with a value that converts to n yields the element at floor(n)
\* when floor(n) is a position of the array, and null when n is NaN, negative, 2^31 or
\* more, or beyond the end of the array.
C17_IndexIsFloor ==
  (exprPhase = "done" /\ exprNode.type = "Index") =>
     exprResult.value =
       elementAt(exprNode.parameters[1].value, convertToNumber(exprNode.parameters[2].value))

C17_Witness ==
  /\ exprPhase = "done"
  /\ exprNode.type = "Index"
  /\ exprNode.parameters[2].value = NumberValue(1, TRUE)
  /\ Len(exprNode.parameters[1].value.items) = MaxItems
  /\ exprResult.value = StringValue("a")

\* the string forms of items from position i on, separated by separator
RECURSIVE joined(_, _, _)
joined(items, separator, i) ==
  IF i > Len(items) THEN ""
  ELSE (IF i > 1 THEN separator ELSE "") \o convertToString(items[i]) \o joined(items, separator, i + 1)

separatorOf(node) ==
  IF Len(node.parameters) > 1 /\ isPrimitive(node.parameters[2].value)
    THEN convertToString(node.parameters[2].value)
    ELSE ","

IsJoin == exprNode.type = "Function" /\ toUpperCase(exprNode.name) = "JOIN"

\* C18: join(items, sep) of an array is the one string of the string forms of its elements,
\* each once and in order, separated by sep's string form or by ','; of a primitive it is
\* the string form; otherwise it is the empty string.
C18_JoinIsDelimitedString ==
  (exprPhase = "done" /\ IsJoin) =>
     exprResult.value =
       StringValue(
         IF exprNode.parameters[1].value.kind = "Array"
           THEN joined(exprNode.parameters[1].value.items, separatorOf(exprNode), 1)
         ELSE IF isPrimitive(exprNode.parameters[1].value)
           THEN convertToString(exprNode.parameters[1].value)
         ELSE "")

OneAndTextOne == <<LiteralNode(NumberValue(1, FALSE)), LiteralNode(StringValue("1"))>>

\* C19 as stated: eq(1, '1') parses and evaluates to true.
C19_EqCallIsTrue ==
  (exprNode = FunctionNode("eq", OneAndTextOne) /\ exprPhase # "text") =>
     /\ exprPhase \in {"tree", "done"}
     /\ exprPhase = "done" => exprResult.value = BooleanValue(TRUE)

\* C19: 1 == '1' parses and evaluates to true, the string operand being coerced to a
\* number; eq(1, '1') does not parse, eq being no function (UnrecognizedFunction).
C19_EqualOperatorCoerces ==
  /\ (exprNode = ContainerNode("Equal", OneAndTextOne) /\ exprPhase # "text") =>
        /\ exprPhase \in {"tree", "done"}
        /\ exprPhase = "done" => exprResult.value = BooleanValue(TRUE)
  /\ (exprNode = FunctionNode("eq", OneAndTextOne) /\ exprPhase # "text") =>
        /\ exprPhase = "failed"
        /\ exprResult.st.exc = "UnrecognizedFunction"

C19_Witness ==
  /\ exprNode = ContainerNode("Equal", OneAndTextOne)
  /\ exprPhase = "done"
  /\ exprTrace = <<exprNode>> \o OneAndTextOne
  /\ exprResult.value = BooleanValue(TRUE)

\* equal in kind, structure, key order and primitive values
RECURSIVE sameValue(_, _)
sameValue(a, b) ==
  /\ a.kind = b.kind
  /\ a.b = b.b /\ a.n = b.n /\ a.half = b.half /\ a.s = b.s
  /\ Len(a.items) = Len(b.items)
  /\ \A i \in 1..Len(a.items) :
       IF a.kind = "Object"
         THEN a.items[i].key = b.items[i].key /\ sameValue(a.items[i].value, b.items[i].value)
         ELSE sameValue(a.items[i], b.items[i])

IsRoundTrip ==
  /\ exprNode.type = "Function" /\ exprNode.name = "fromJson"
  /\ Len(exprNode.parameters) = 1
  /\ exprNode.parameters[1].type = "Function" /\ exprNode.parameters[1].name = "toJson"

roundTripped == exprNode.parameters[1].parameters[1].value

\* C20 as stated: for every canonical value v without unknown-kind collections,
\* fromJson(toJson(v)) succeeds and yields a value equal to v.
C20_RoundTrip ==
  (IsRoundTrip /\ exprPhase \notin {"text", "tree"}) =>
     /\ exprPhase = "done"
     /\ sameValue(exprResult.value, roundTripped)

\* keys that JSON.parse and the dictionary keep as they are and where they are
plainKeys(pairs) ==
  /\ \A i \in 1..Len(pairs) : pairs[i].key # "length" /\ ~isArrayIndex(pairs[i].key)
  /\ \A i, j \in 1..Len(pairs) : i # j => toUpperCase(pairs[i].key) # toUpperCase(pairs[j].key)

\* a value with finite numbers only and plain keys only
RECURSIVE jsonFaithful(_)
jsonFaithful(v) ==
  CASE v.kind = "Number" -> isFinite(v)
    [] v.kind = "Array" -> \A i \in 1..Len(v.items) : jsonFaithful(v.items[i])
    [] v.kind = "Object" ->
         plainKeys(v.items) /\ \A i \in 1..Len(v.items) : jsonFaithful(v.items[i].value)
    [] OTHER -> TRUE

\* C20: fromJson(toJson(v)) succeeds and yields a value equal to v in kind, structure, key
\* order and primitive values when every number in v is finite and the keys of every object
\* in v differ when case is ignored, none being "length" or an array index.
C20_RoundTripOfFaithful ==
  (IsRoundTrip /\ exprPhase \notin {"text", "tree"} /\ jsonFaithful(roundTripped)) =>
     /\ exprPhase = "done"
     /\ sameValue(exprResult.value, roundTripped)

C20_Witness ==
  /\ IsRoundTrip
  /\ exprPhase = "done"
  /\ roundTripped.kind = "Object"
  /\ Len(roundTripped.items) = 2
  /\ roundTripped.items[1].value.kind = "Array"
  /\ sameValue(exprResult.value, roundTripped)

(***************************************************************************)
(* The template memory: tokens                                             *)
(***************************************************************************)
\* the bytes of a token and of all its descendants, mapping keys included, each once
DeepBytes(value) == SumBytes(traverse(value, FALSE), 1)

\* C26: addToken and subtractToken with deep = false ask for the bytes of the head node
\* only, and with deep = true for the bytes of the head and of every descendant once.
C26_DeepFlagSelectsTraversal ==
  (lastOp \in {"addToken", "subtractToken"}) =>
     lastAmount = IF lastFlag THEN DeepBytes(lastToken) ELSE ItemBytes(lastToken)

(***************************************************************************)
(* The schema: matching a property                                         *)
(***************************************************************************)
ElementsOf(s) == {s[i] : i \in 1..Len(s)}

\* the candidates kept are exactly the candidates of definitions that declare propertyName
ExactlyDeclaring(definitions, propertyName, kept) ==
  /\ \A j \in 1..Len(kept) :
       kept[j] \in ElementsOf(definitions) /\ propertyType(kept[j], propertyName) # ""
  /\ \A j \in 1..Len(definitions) :
       propertyType(definitions[j], propertyName) # "" => definitions[j] \in ElementsOf(kept)
  /\ Len(kept) <= Len(definitions)

\* C30: when matchPropertyAndFilter returns a property type for a key of the mapping read,
\* the candidates it leaves are exactly the original candidates that declare the key; a
\* step read with the key run is thereby taken for a run step, and nothing is reported.
C30_FilterKeepsDeclaring ==
  \A keys \in FlatKeys :
    ReadFlat(keys) =>
      /\ \A i \in 1..Len(keys) :
           matchPropertyAndFilter(getDefinitionsOfType(readerType, "mapping"), keys[i]).type # ""
             => ExactlyDeclaring(
                  getDefinitionsOfType(readerType, "mapping"), keys[i],
                  matchPropertyAndFilter(getDefinitionsOfType(readerType, "mapping"),
                                         keys[i]).definitions)
      /\ (readerType = "step" /\ keys = <<"run">>) =>
            /\ errors = <<>>
            /\ readerValue = FlatMapping(keys)

C30_Witness ==
  /\ ReadFlat(<<"run", "name">>)
  /\ readerType = "step"
  /\ getDefinitionsOfType(readerType, "mapping") = <<"runStep", "usesStep">>
  /\ matchPropertyAndFilter(<<"runStep", "usesStep">>, "run").definitions = <<"runStep">>
  /\ errors = <<>>
  /\ readerValue = FlatMapping(<<"run", "name">>)

\* the bytes the reader states from frame `from` up are charged for: each state's token
\* and the removeBytes handed in at its creation
RECURSIVE LivePathBytes(_, _)
LivePathBytes(frames, from) ==
  IF from > Len(frames) THEN 0
  ELSE calculateTokenBytes(frames[from].value, FALSE) + frames[from].removeBytes
       + LivePathBytes(frames, from + 1)

\* the removeBytes the live states were created with were charged by whoever handed
\* them in; the first state's are the caller's
RECURSIVE LivePathRemoveBytes(_, _)
LivePathRemoveBytes(frames, from) ==
  IF from > Len(frames) THEN 0
  ELSE frames[from].removeBytes + LivePathRemoveBytes(frames, from + 1)

\* C24: at every point between unraveler operations the depth and the bytes charged
\* correspond exactly to the reader states on the live path: one depth unit a state,
\* and its token's bytes plus the removeBytes handed in at its creation; nothing stays
\* charged for a state that was removed.
C24_ChargesAreLivePath ==
  (phase \in {"reading", "ended"} /\ thrown = "none") =>
    /\ currentDepth = Len(stack)
    /\ currentBytes = initialBytes - ctorRemoveBytes + LivePathBytes(stack, 1)

\* C24, amended: between unraveler operations the depth charged is the number of reader
\* states on the live path, and the bytes charged are those of the live path (each
\* state's token and the removeBytes handed in at its creation) plus the bytes of every
\* scalar, sequence start and mapping start returned to the caller so far, plus what a
\* conversion stopped by the byte limit had charged before it was stopped.
C24_LivePathAndReturnedEvents ==
  (phase \in {"reading", "ended"} /\ thrown = "none") =>
    /\ currentDepth = Len(stack)
    /\ currentBytes >= initialBytes - ctorRemoveBytes + LivePathBytes(stack, 1)
                       + EmittedBytes(emitted, 1)
    /\ "memory" \notin ErrorKinds =>
         currentBytes = initialBytes - ctorRemoveBytes + LivePathBytes(stack, 1)
                        + EmittedBytes(emitted, 1)

\* an expression was evaluated: a state above the root holds the bytes of the
\* conversion as removeBytes, states were removed before it and events were returned
C24_Witness ==
  /\ phase = "reading"
  /\ thrown = "none"
  /\ \E i \in 2..Len(stack) : stack[i].removeBytes > 0
  /\ evalOk > 0
  /\ Len(emitted) >= 2
  /\ "memory" \notin ErrorKinds

\* C25: reader states are released on every exit path: when an unraveler operation
\* returns or throws, every state it created that is not on the live path has had its
\* depth unit and its bytes subtracted, so what is charged is the live path (and the
\* events already returned) even after a failure part-way through creating a state.
C25_NoChargeLeaksOnExit ==
  (phase # "new" \/ thrown # "none") /\ "memory" \notin ErrorKinds =>
    /\ currentDepth = Len(stack)
    /\ currentBytes = initialBytes - ctorRemoveBytes + LivePathBytes(stack, 1)
                      + EmittedBytes(emitted, 1)

\* the templates whose second or first key is the expression e
C27_KeyFirst ==
  MapTok(<<Pair(ExprTok("e"), SeqTok(<<Lint, Package>>)), Pair(StrTok("b"), NumTok("2"))>>)

C27_KeyLast ==
  MapTok(<<Pair(StrTok("a"), NumTok("1")), Pair(ExprTok("e"), MapTok(<<Pair(Build, Test)>>))>>)

\* the events of a mapping of literal pairs
MappingEvents(pairs) ==
  <<Event("mapping-start", MapTok(<<>>))>>
  \o pairs
  \o <<Event("mapping-end", MapTok(<<>>))>>

\* the key expression was evaluated as a string and the evaluation threw
C27_Case ==
  /\ template \in {C27_KeyFirst, C27_KeyLast}
  /\ env["e"].fails
  /\ allExpand

\* C27: when a mapping-key expression fails to evaluate as a string, neither the key
\* nor its value (nested events included) is emitted, and the traversal resumes at the
\* next key of the mapping or at the mapping end.
C27_FailedKeySkipsPair ==
  C27_Case =>
    LET rest == IF template = C27_KeyFirst
                THEN MappingEvents(<<Scalar(StrTok("b")), Scalar(NumTok("2"))>>)
                ELSE MappingEvents(<<Scalar(StrTok("a")), Scalar(NumTok("1"))>>)
    IN  /\ IsPrefix(emitted, rest)
        /\ thrown # "unexpected-state"
        /\ phase = "ended" => emitted = rest
        /\ (evalFailed > 0 /\ thrown = "none" /\ stack # <<>>) =>
             IF template = C27_KeyFirst
             THEN current(Unraveler).value \in {StrTok("b"), NumTok("2"), template}
             ELSE current(Unraveler).value = template
        /\ (evalFailed > 0 /\ thrown = "none" /\ Len(stack) = 1) =>
             IF template = C27_KeyFirst
             THEN collectionIsEnd(stack[1]) /\ Len(emitted) = 3
             ELSE collectionIsEnd(stack[1])

\* the failed key was skipped and the traversal read to its end
C27_Witness ==
  /\ C27_Case
  /\ template = C27_KeyFirst
  /\ evalFailed = 1
  /\ "evaluation" \in ErrorKinds
  /\ phase = "ended"
  /\ Len(emitted) = 4

(***************************************************************************)
(* SpecCli: the three command lines.  argv is process.argv.slice(2); cli   *)
(* is the process: its name, whether it runs or has exited, the exit       *)
(* status, whether the usage text was printed, and the message printed.    *)
(***************************************************************************)
MaxArgs == 3

ARG_HELP_CODE == "ARG_HELP"

ARGV_ERROR_CODE == "ARGV"

\* the arguments the command lines are started with
SampleArgs == {"--help", "--pretty", "--wat", "--no-expand-expressions", "input.json"}

\* arg.startsWith("--")
startsWithDashes(arg) == arg \in {"--help", "--pretty", "--wat", "--no-expand-expressions",
                                  "--expand-expressions"}

\* arg.substr(2)
substr2(arg) ==
  CASE arg = "--help" -> "help"
    [] arg = "--pretty" -> "pretty"
    [] arg = "--wat" -> "wat"
    [] arg = "--no-expand-expressions" -> "no-expand-expressions"
    [] arg = "--expand-expressions" -> "expand-expressions"
    [] OTHER -> arg

\* new Arguments()
Arguments == [flags |-> {}, options |-> <<>>, arguments |-> <<>>, exc |-> "none", code |-> ""]

\* throwError(message, code)
throwError(a, message, code) ==
  [a EXCEPT !.exc = message, !.code = IF code = "" THEN ARGV_ERROR_CODE ELSE code]

\* the loop of parseArgs from argument i on
RECURSIVE parseArgsFrom(_, _, _, _, _, _)
parseArgsFrom(a, args, i, flags, options, allowArgs) ==
  IF i > Len(args) \/ a.exc # "none" THEN a
  ELSE LET arg == args[i]
           name == substr2(arg)
       IN  IF startsWithDashes(arg)
           THEN IF name \in flags
                THEN parseArgsFrom([a EXCEPT !.flags = @ \cup {name}], args, i + 1,
                                   flags, options, allowArgs)
                ELSE IF name \notin options
                THEN throwError(a, "Unknown option '" \o name \o "'", "")
                ELSE IF i + 1 > Len(args) \/ startsWithDashes(args[i + 1])
                THEN throwError(a, "Option '" \o name \o "' must have a value", "")
                ELSE parseArgsFrom([a EXCEPT !.options = Append(@, <<name, args[i + 1]>>)],
                                   args, i + 2, flags, options, allowArgs)
           ELSE IF ~allowArgs
           THEN throwError(a, "Unexpected argument '" \o arg \o "'", "")
           ELSE parseArgsFrom([a EXCEPT !.arguments = Append(@, arg)], args, i + 1,
                              flags, options, allowArgs)

\* parseArgs(flags, options, allowArgs)
parseArgs(args, flags, options, allowArgs) ==
  IF \E i \in 1..Len(args) : args[i] = "--help"
  THEN throwError(Arguments, "Help requested", ARG_HELP_CODE)
  ELSE parseArgsFrom(Arguments, args, 1, flags, options, allowArgs)

\* a process: started, reading its standard input, or gone with an exit status
Process(name, at, exitCode, usage, message) ==
  [name |-> name, phase |-> at, exitCode |-> exitCode, usage |-> usage,
   message |-> message]

\* the process reads standard input
Running(name) == Process(name, "running", -1, FALSE, "")

\* an error nobody catches at the top of a script: node prints it and exits with 1
Uncaught(name, a, usage) == Process(name, "exited", 1, usage, "Error: " \o a.exc)

\* expressions/cli.ts up to the reading of standard input; the file has no usage text
expressionsCli(args) ==
  LET a == parseArgs(args, {"pretty"}, {}, FALSE)
  IN  IF a.exc # "none" THEN Uncaught("expressions", a, FALSE) ELSE Running("expressions")

\* templates/cli.ts up to the reading of standard input.  parseArgs is handed the usage
\* text as a fourth argument it does not have; whether the text reaches the output
\* with the report of the uncaught error is up to the build, hence echo
templatesCli(args, echo) ==
  LET a == parseArgs(args, {"pretty", "expand-expressions", "no-expand-expressions"}, {}, FALSE)
  IN  IF a.exc # "none" THEN Uncaught("templates", a, echo)
      ELSE IF {"expand-expressions", "no-expand-expressions"} \subseteq a.flags
      THEN Process("templates", "exited", 0, FALSE, "You can't provide both")
      ELSE Running("templates")

\* yargs(...).usage(...).options({pretty: boolean}).strict().parseSync(): --help prints
\* the usage and exits with 0, an unknown argument prints the usage and the complaint
\* and exits with 1
RECURSIVE yargsUnknown(_, _)
yargsUnknown(args, i) ==
  IF i > Len(args) THEN ""
  ELSE IF args[i] # "--pretty" THEN substr2(args[i])
  ELSE yargsUnknown(args, i + 1)

workflowsCli(args) ==
  IF \E i \in 1..Len(args) : args[i] = "--help"
  THEN Process("workflows", "exited", 0, TRUE, "")
  ELSE IF yargsUnknown(args, 1) # ""
  THEN Process("workflows", "exited", 1, TRUE, "Unknown argument: " \o yargsUnknown(args, 1))
  ELSE Running("workflows")

CliInit ==
  /\ argv \in SeqsUpTo(SampleArgs, MaxArgs)
  /\ cli \in {Process(name, "start", -1, FALSE, "") : name \in {"expressions", "templates", "workflows"}}
  /\ exprText = <<>>
  /\ lexer = <<>>
  /\ parser = <<>>
  /\ parsePhase = "idle"
  /\ UnitIdle
  /\ maxBytes = 0
  /\ maxDepth = 0
  /\ currentBytes = 0
  /\ currentDepth = 0
  /\ thrown = "none"
  /\ lastOp = "new"
  /\ lastAmount = 0
  /\ prevBytes = 0
  /\ prevDepth = 0
  /\ EvalIdle
  /\ UnravelIdle
  /\ ReaderIdle
  /\ ExprIdle
  /\ TokenIdle

CliReturn(process) ==
  /\ cli' = process
  /\ UNCHANGED <<argv, parseVars, unitVars, memVars, evalVars, unravelVars, readerVars, exprVars,
               tokenVars>>

\* node dist/expressions/cli.js argv
ExpressionsCli ==
  /\ cli.phase = "start"
  /\ cli.name = "expressions"
  /\ CliReturn(expressionsCli(argv))

\* node dist/templates/cli.js argv
TemplatesCli ==
  /\ cli.phase = "start"
  /\ cli.name = "templates"
  /\ \E echo \in BOOLEAN : CliReturn(templatesCli(argv, echo))

\* node dist/workflows/cli.js argv
WorkflowsCli ==
  /\ cli.phase = "start"
  /\ cli.name = "workflows"
  /\ CliReturn(workflowsCli(argv))

CliNext ==
  \/ ExpressionsCli
  \/ TemplatesCli
  \/ WorkflowsCli

SpecCli == CliInit /\ [][CliNext]_vars

\* the command line names a flag the command does not know, and no --help
UnknownFlagGiven ==
  /\ \E i \in 1..Len(argv) :
       /\ startsWithDashes(argv[i])
       /\ argv[i] # "--help"
       /\ substr2(argv[i]) \notin
            (CASE cli.name = "expressions" -> {"pretty"}
               [] cli.name = "templates" -> {"pretty", "expand-expressions", "no-expand-expressions"}
               [] OTHER -> {"pretty"})
  /\ \A i \in 1..Len(argv) : argv[i] # "--help"

\* the command line is --help, with nothing the command does not know
HelpGiven == argv = <<"--help">>

\* C23: each CLI, given an unknown flag, prints usage and exits with a non-zero status;
\* given --help, it prints usage and exits with status zero.
C23_UsageAndExitStatus ==
  cli.phase # "start" =>
    /\ UnknownFlagGiven => cli.phase = "exited" /\ cli.usage /\ cli.exitCode # 0
    /\ HelpGiven => cli.phase = "exited" /\ cli.usage /\ cli.exitCode = 0

(***************************************************************************)
(* The lexical analyzer and the parser.  An expression is its characters   *)
(* followed by a run of blanks (so that a source longer than MAX_LENGTH is *)
(* a small value); an index into it counts from 0 as in the source.        *)
(***************************************************************************)
MAX_DEPTH == 50

MAX_LENGTH == 21000

\* an expression string: the characters of text, then trailing blanks
Expression(text, trailing) == [text |-> text, trailing |-> trailing]

\* expression.length
lengthOf(e) == Len(e.text) + e.trailing

\* expression[i]
charAt(e, i) == IF i < Len(e.text) THEN e.text[i + 1] ELSE " "

\* /\s/.test(c)
isWhitespace(c) == c = " "

\* expression.substr(start, length) as the characters it holds
charsOf(e, start, length) == [k \in 1..length |-> charAt(e, start + k - 1)]

\* the string made of the characters in chars from the k-th on
RECURSIVE stringFrom(_, _)
stringFrom(chars, k) == IF k > Len(chars) THEN "" ELSE chars[k] \o stringFrom(chars, k + 1)

\* expression.substr(start, length)
substr(e, start, length) == stringFrom(charsOf(e, start, length), 1)

\* new Token(kind, rawValue, index, parsedValue)
Token(kind, rawValue, index, parsedValue) ==
  [kind |-> kind, rawValue |-> rawValue, index |-> index, parsedValue |-> parsedValue]

\* undefined where a token is expected
NoToken == Token("none", "", -1, NullValue)

\* Token.isOperator
isOperator(token) ==
  token.kind \in {"StartGroup", "StartIndex", "StartParameters", "EndGroup", "EndIndex",
                  "EndParameters", "Separator", "Dereference", "LogicalOperator"}

\* Token.associativity
associativity(token) ==
  IF token.kind = "StartGroup" THEN "None"
  ELSE IF token.kind = "LogicalOperator" /\ token.rawValue = "!" THEN "RightToLeft"
  ELSE IF isOperator(token) THEN "LeftToRight"
  ELSE "None"

\* Token.precedence
precedence(token) ==
  CASE token.kind = "StartGroup" -> 20
    [] token.kind \in {"StartIndex", "StartParameters", "Dereference"} -> 19
    [] token.kind = "LogicalOperator" /\ token.rawValue = "!" -> 16
    [] token.kind = "LogicalOperator" /\ token.rawValue \in {">", ">=", "<", "<="} -> 11
    [] token.kind = "LogicalOperator" /\ token.rawValue \in {"==", "!="} -> 10
    [] token.kind = "LogicalOperator" /\ token.rawValue = "&&" -> 6
    [] token.kind = "LogicalOperator" /\ token.rawValue = "||" -> 5
    [] token.kind \in {"EndGroup", "EndIndex", "EndParameters", "Separator"} -> 1
    [] OTHER -> 0

\* Token.operandCount
operandCount(token) ==
  CASE token.kind \in {"StartIndex", "Dereference"} -> 2
    [] token.kind = "LogicalOperator" /\ token.rawValue = "!" -> 1
    [] token.kind = "LogicalOperator" -> 2
    [] OTHER -> 0

\* new LexicalAnalyzer(expression): _index, _lastToken and _unclosedTokens
LexicalAnalyzer == [index |-> 0, lastToken |-> NoToken, unclosedTokens |-> <<>>]

\* LexicalAnalyzer._lastUnclosedToken
lastUnclosedToken(lx) ==
  IF lx.unclosedTokens = <<>> THEN NoToken ELSE lx.unclosedTokens[Len(lx.unclosedTokens)]

\* LexicalAnalyzer.hasUnclosedTokens
hasUnclosedTokens(lx) == Len(lx.unclosedTokens) > 0

\* LexicalAnalyzer.testTokenBoundary
testTokenBoundary(c) ==
  c \in {"(", "[", ")", "]", ",", ".", "!", ">", "<", "=", "&", "|"} \/ isWhitespace(c)

\* the kinds a token of this kind may follow, "none" where it may come first
BeforeOperand ==
  {"none", "Separator", "StartGroup", "StartParameters", "StartIndex", "LogicalOperator"}

AfterOperand ==
  {"EndGroup", "EndParameters", "EndIndex", "Wildcard", "Null", "Boolean", "Number", "String",
   "PropertyName", "NamedContext"}

AfterIndexable ==
  {"EndGroup", "EndParameters", "EndIndex", "Wildcard", "PropertyName", "NamedContext"}

\* the first switch of createToken: the kinds of last token this token is legal after
allowedLast(kind, rawValue) ==
  CASE kind \in {"StartGroup", "Null", "Boolean", "Number", "String", "Function",
                 "NamedContext"} -> BeforeOperand
    [] kind \in {"StartIndex", "Dereference"} -> AfterIndexable
    [] kind = "StartParameters" -> {"Function"}
    [] kind \in {"EndGroup", "EndIndex", "Separator"} -> AfterOperand
    [] kind = "EndParameters" -> {"StartParameters"} \cup AfterOperand
    [] kind = "Wildcard" -> {"StartIndex", "Dereference"}
    [] kind = "LogicalOperator" -> IF rawValue = "!" THEN BeforeOperand ELSE AfterOperand
    [] kind = "PropertyName" -> {"Dereference"}
    [] OTHER -> {}

\* LexicalAnalyzer.checkLastToken
checkLastToken(lx, allowed) == lx.lastToken.kind \in allowed

\* what createToken and the read... operations give back: the analyzer and the token
Lexed(lx, token) == [lx |-> lx, token |-> token]

\* the start token a closing token or a separator must find on top
expectedUnclosed(kind) ==
  CASE kind = "EndGroup" -> "StartGroup"
    [] kind = "EndIndex" -> "StartIndex"
    [] kind \in {"EndParameters", "Separator"} -> "StartParameters"
    [] OTHER -> "none"

\* a createToken that closes whatever start token is on top
createTokenUnmatched(lx, kind, rawValue, index, parsedValue) ==
  LET token == Token(kind, rawValue, index, parsedValue)
  IN  IF ~checkLastToken(lx, allowedLast(kind, rawValue))
      THEN Lexed(lx, Token("Unexpected", rawValue, index, NullValue))
      ELSE IF kind \in {"StartGroup", "StartIndex", "StartParameters"}
      THEN Lexed([lx EXCEPT !.unclosedTokens = Append(@, token)], token)
      ELSE IF kind \in {"EndGroup", "EndIndex", "EndParameters"}
      THEN IF lx.unclosedTokens = <<>>
           THEN Lexed(lx, Token("Unexpected", rawValue, index, NullValue))
           ELSE Lexed([lx EXCEPT !.unclosedTokens = SubSeq(@, 1, Len(@) - 1)], token)
      ELSE Lexed(lx, token)

\* a createToken whose Unexpected token is located where the analyzer stands
createTokenAtAnalyzer(lx, kind, rawValue, index, parsedValue) ==
  LET token == Token(kind, rawValue, index, parsedValue)
  IN  IF ~checkLastToken(lx, allowedLast(kind, rawValue))
      THEN Lexed(lx, Token("Unexpected", rawValue, lx.index + 1, NullValue))
      ELSE IF kind \in {"StartGroup", "StartIndex", "StartParameters"}
      THEN Lexed([lx EXCEPT !.unclosedTokens = Append(@, token)], token)
      ELSE IF expectedUnclosed(kind) # "none"
              /\ lastUnclosedToken(lx).kind # expectedUnclosed(kind)
      THEN Lexed(lx, Token("Unexpected", rawValue, lx.index + 1, NullValue))
      ELSE IF kind \in {"EndGroup", "EndIndex", "EndParameters"}
      THEN Lexed([lx EXCEPT !.unclosedTokens = SubSeq(@, 1, Len(@) - 1)], token)
      ELSE Lexed(lx, token)

\* LexicalAnalyzer.createToken
createToken(lx, kind, rawValue, index, parsedValue) ==
  LET token == Token(kind, rawValue, index, parsedValue)
  IN  IF ~checkLastToken(lx, allowedLast(kind, rawValue))
      THEN Lexed(lx, Token("Unexpected", rawValue, index, NullValue))
      ELSE IF kind \in {"StartGroup", "StartIndex", "StartParameters"}
      THEN Lexed([lx EXCEPT !.unclosedTokens = Append(@, token)], token)
      ELSE IF expectedUnclosed(kind) # "none"
              /\ lastUnclosedToken(lx).kind # expectedUnclosed(kind)
      THEN Lexed(lx, Token("Unexpected", rawValue, index, NullValue))
      ELSE IF kind \in {"EndGroup", "EndIndex", "EndParameters"}
      THEN Lexed([lx EXCEPT !.unclosedTokens = SubSeq(@, 1, Len(@) - 1)], token)
      ELSE Lexed(lx, token)

\* createToken(kind, rawValue, index, parsedValue) with _index left at next
createTokenAt(lx, kind, rawValue, index, parsedValue, next) ==
  createToken([lx EXCEPT !.index = next], kind, rawValue, index, parsedValue)

\* the decimal digits as characters
DigitChars == {"0", "1", "2", "3", "4", "5", "6", "7", "8", "9"}

digitValue(c) ==
  CASE c = "0" -> 0 [] c = "1" -> 1 [] c = "2" -> 2 [] c = "3" -> 3 [] c = "4" -> 4
    [] c = "5" -> 5 [] c = "6" -> 6 [] c = "7" -> 7 [] c = "8" -> 8 [] OTHER -> 9

\* the whole number the digits chars[1..k] spell
RECURSIVE wholeOf(_, _)
wholeOf(chars, k) == IF k = 0 THEN 0 ELSE wholeOf(chars, k - 1) * 10 + digitValue(chars[k])

\* the digits of a fraction without its trailing zeros
RECURSIVE stripZeros(_)
stripZeros(chars) ==
  IF chars # <<>> /\ chars[Len(chars)] = "0" THEN stripZeros(SubSeq(chars, 1, Len(chars) - 1))
  ELSE chars

\* where the first "." of chars is, Len(chars) + 1 without one
RECURSIVE dotOf(_, _)
dotOf(chars, k) ==
  IF k > Len(chars) \/ chars[k] = "." THEN k ELSE dotOf(chars, k + 1)

\* Number(str) for an unsigned decimal: digits, at most one ".", a digit at least
unsignedNumber(chars) ==
  LET dot == dotOf(chars, 1)
      whole == SubSeq(chars, 1, dot - 1)
      fraction == SubSeq(chars, dot + 1, Len(chars))
      digitsOnly == /\ \A k \in 1..Len(whole) : whole[k] \in DigitChars
                    /\ \A k \in 1..Len(fraction) : fraction[k] \in DigitChars
  IN  IF ~digitsOnly \/ Len(whole) + Len(fraction) = 0 THEN NaN
      ELSE IF stripZeros(fraction) = <<>> THEN NumberValue(wholeOf(whole, Len(whole)), FALSE)
      ELSE IF stripZeros(fraction) = <<"5">> THEN NumberValue(wholeOf(whole, Len(whole)), TRUE)
      ELSE CanonicalValue("Number", FALSE, wholeOf(whole, Len(whole)), FALSE, "",
                          stripZeros(fraction), <<>>)

\* expressionUtility.parseNumber on the characters of a number token: Number(str) for
\* the decimal texts; the texts of the model have no exponent, radix prefix or name
parseNumberChars(chars) ==
  IF chars # <<>> /\ chars[1] = "+" THEN unsignedNumber(Tail(chars))
  ELSE IF chars # <<>> /\ chars[1] = "-"
  THEN LET n == unsignedNumber(Tail(chars))
       IN  IF isNaN(n) THEN n
           ELSE IF n.half \/ n.items # <<>>
           THEN CanonicalValue("Number", FALSE, 0 - n.n, FALSE, "",
                               <<"-">> \o (IF n.half THEN <<"5">> ELSE n.items), <<>>)
           ELSE NumberValue(0 - n.n, FALSE)
  ELSE unsignedNumber(chars)

\* the end of a number token read from index i on
RECURSIVE numberEnd(_, _)
numberEnd(e, i) ==
  IF i < lengthOf(e) /\ (~testTokenBoundary(charAt(e, i)) \/ charAt(e, i) = ".")
  THEN numberEnd(e, i + 1) ELSE i

\* LexicalAnalyzer.readNumberToken
readNumberToken(e, lx) ==
  LET startIndex == lx.index
      end == numberEnd(e, startIndex + 1)
      chars == charsOf(e, startIndex, end - startIndex)
      n == parseNumberChars(chars)
  IN  IF isNaN(n)
      THEN createTokenAt(lx, "Unexpected", stringFrom(chars, 1), startIndex, NullValue, end)
      ELSE createTokenAt(lx, "Number", stringFrom(chars, 1), startIndex, n, end)

\* the end of a keyword read from index i on
RECURSIVE keywordEnd(_, _)
keywordEnd(e, i) ==
  IF i < lengthOf(e) /\ ~testTokenBoundary(charAt(e, i)) THEN keywordEnd(e, i + 1) ELSE i

LowerChars ==
  {"a", "b", "c", "d", "e", "f", "g", "h", "i", "j", "k", "l", "m", "n", "o", "p", "q", "r",
   "s", "t", "u", "v", "w", "x", "y", "z"}

UpperChars ==
  {"A", "B", "C", "D", "E", "F", "G", "H", "I", "J", "K", "L", "M", "N", "O", "P", "Q", "R",
   "S", "T", "U", "V", "W", "X", "Y", "Z"}

\* expressionUtility.testLegalKeyword
testLegalKeyword(chars) ==
  /\ chars # <<>>
  /\ chars[1] \in LowerChars \cup UpperChars \cup {"_"}
  /\ \A k \in 1..Len(chars) :
       chars[k] \in LowerChars \cup UpperChars \cup DigitChars \cup {"_", "-"}

\* the index of the first character from i on that is not whitespace
skipWhitespace(e, i) ==
  IF \E k \in (i + 1)..Len(e.text) : ~isWhitespace(e.text[k])
  THEN (CHOOSE k \in (i + 1)..Len(e.text) :
          /\ ~isWhitespace(e.text[k])
          /\ \A j \in (i + 1)..(k - 1) : isWhitespace(e.text[j])) - 1
  ELSE IF i > lengthOf(e) THEN i ELSE lengthOf(e)

\* LexicalAnalyzer.readKeywordToken
readKeywordToken(e, lx) ==
  LET startIndex == lx.index
      end == keywordEnd(e, startIndex + 1)
      chars == charsOf(e, startIndex, end - startIndex)
      str == stringFrom(chars, 1)
      tempIndex == skipWhitespace(e, end)
  IN  IF ~testLegalKeyword(chars)
      THEN createTokenAt(lx, "Unexpected", str, startIndex, NullValue, end)
      ELSE IF lx.lastToken.kind = "Dereference"
      THEN createTokenAt(lx, "PropertyName", str, startIndex, NullValue, end)
      ELSE IF str = "null" THEN createTokenAt(lx, "Null", str, startIndex, NullValue, end)
      ELSE IF str = "true"
      THEN createTokenAt(lx, "Boolean", str, startIndex, BooleanValue(TRUE), end)
      ELSE IF str = "false"
      THEN createTokenAt(lx, "Boolean", str, startIndex, BooleanValue(FALSE), end)
      ELSE IF str = "NaN" THEN createTokenAt(lx, "Number", str, startIndex, NaN, end)
      ELSE IF str = "Infinity" THEN createTokenAt(lx, "Number", str, startIndex, Infinity, end)
      ELSE IF tempIndex < lengthOf(e) /\ charAt(e, tempIndex) = "("
      THEN createTokenAt(lx, "Function", str, startIndex, NullValue, end)
      ELSE createTokenAt(lx, "NamedContext", str, startIndex, NullValue, end)

\* the loop of readStringToken from index i on, str being the value read so far
RECURSIVE stringScan(_, _, _)
stringScan(e, i, str) ==
  IF i >= lengthOf(e) THEN [index |-> i, closed |-> FALSE, str |-> str]
  ELSE IF charAt(e, i) = "'"
  THEN IF i + 1 >= lengthOf(e) \/ charAt(e, i + 1) # "'"
       THEN [index |-> i + 1, closed |-> TRUE, str |-> str]
       ELSE stringScan(e, i + 2, str \o "'")
  ELSE stringScan(e, i + 1, str \o charAt(e, i))

\* LexicalAnalyzer.readStringToken
readStringToken(e, lx) ==
  LET startIndex == lx.index
      scan == stringScan(e, startIndex + 1, "")
      rawValue == substr(e, startIndex, scan.index - startIndex)
  IN  IF scan.closed
      THEN createTokenAt(lx, "String", rawValue, startIndex, StringValue(scan.str), scan.index)
      ELSE createTokenAt(lx, "Unexpected", rawValue, startIndex, NullValue, scan.index)

\* LexicalAnalyzer.readOperator
readOperator(e, lx) ==
  LET startIndex == lx.index
      two == IF startIndex + 1 < lengthOf(e) THEN substr(e, startIndex, 2) ELSE ""
      one == substr(e, startIndex, 1)
      end == keywordEnd(e, startIndex + 1)
  IN  IF two \in {"!=", ">=", "<=", "==", "&&", "||"}
      THEN createTokenAt(lx, "LogicalOperator", two, startIndex, NullValue, startIndex + 2)
      ELSE IF one \in {"!", ">", "<"}
      THEN createTokenAt(lx, "LogicalOperator", one, startIndex, NullValue, startIndex + 1)
      ELSE createTokenAt(lx, "Unexpected", substr(e, startIndex, end - startIndex),
                         startIndex, NullValue, end)

\* the switch of getNextToken on the character c at _index
nextTokenAt(e, lx, c) ==
  LET i == lx.index
  IN  CASE c = "(" ->
             IF lx.lastToken.kind = "Function"
             THEN createTokenAt(lx, "StartParameters", c, i, NullValue, i + 1)
             ELSE createTokenAt(lx, "StartGroup", c, i, NullValue, i + 1)
        [] c = "[" -> createTokenAt(lx, "StartIndex", c, i, NullValue, i + 1)
        [] c = ")" ->
             IF lastUnclosedToken(lx).kind = "StartParameters"
             THEN createTokenAt(lx, "EndParameters", c, i, NullValue, i + 1)
             ELSE createTokenAt(lx, "EndGroup", c, i, NullValue, i + 1)
        [] c = "]" -> createTokenAt(lx, "EndIndex", c, i, NullValue, i + 1)
        [] c = "," -> createTokenAt(lx, "Separator", c, i, NullValue, i + 1)
        [] c = "*" -> createTokenAt(lx, "Wildcard", c, i, NullValue, i + 1)
        [] c = "'" -> readStringToken(e, lx)
        [] c \in {"!", ">", "<", "=", "&", "|"} -> readOperator(e, lx)
        [] c = "." ->
             IF lx.lastToken.kind \in {"none", "Separator", "StartGroup", "StartIndex",
                                       "StartParameters", "LogicalOperator"}
             THEN readNumberToken(e, lx)
             ELSE createTokenAt(lx, "Dereference", c, i, NullValue, i + 1)
        [] c \in {"-", "+"} \cup DigitChars -> readNumberToken(e, lx)
        [] OTHER -> readKeywordToken(e, lx)

\* LexicalAnalyzer.getNextToken: NoToken at the end of the string
getNextToken(e, lx) ==
  LET skipped == [lx EXCEPT !.index = skipWhitespace(e, lx.index)]
      read == nextTokenAt(e, skipped, charAt(e, skipped.index))
  IN  IF skipped.index >= lengthOf(e) THEN Lexed(skipped, NoToken)
      ELSE Lexed([read.lx EXCEPT !.lastToken = read.token], read.token)

\* the named contexts and functions the caller of createExpressionTree passes
ParseNamedContexts == {"a", "b", "c", "d"}

ParseFunctions == {FunctionInfo("f", 1, 2)}

\* getFunctionInfo(context, name): the infos found, none or one
parseFunctionInfo(name) ==
  {f \in WELL_KNOWN_FUNCTIONS \cup ParseFunctions : toUpperCase(f.name) = toUpperCase(name)}

\* context.extensionNamedContexts[name.toUpperCase()]
parseNamedContext(name) ==
  {n \in ParseNamedContexts : toUpperCase(n) = toUpperCase(name)}

\* the Error createParseError makes: its description, and the raw value and the
\* position the message names when a token is given
ParseError(kind, description, rawValue, position) ==
  [kind |-> kind, description |-> description, rawValue |-> rawValue, position |-> position]

NoError == ParseError("none", "", "", 0)

\* the description createParseError gives a kind of error
descriptionOf(kind) ==
  CASE kind = "ExceededMaxDepth" -> "Exceeded max expression depth 50"
    [] kind = "ExceededMaxLength" -> "Exceeded max expression length 21000"
    [] kind = "TooFewParameters" -> "Too few parameters supplied"
    [] kind = "TooManyParameters" -> "Too many parameters supplied"
    [] kind = "UnexpectedEndOfExpression" -> "Unexpected end of expression"
    [] kind = "UnexpectedSymbol" -> "Unexpected symbol"
    [] kind = "UnrecognizedFunction" -> "Unrecognized function"
    [] kind = "UnrecognizedNamedContext" -> "Unrecognized named-context"
    [] OTHER -> "Unexpected parse exception kind"

\* createParseError(kind, token, expression)
createParseError(kind, token) ==
  IF token.kind = "none" THEN ParseError(kind, descriptionOf(kind), "", 0)
  ELSE ParseError(kind, descriptionOf(kind), token.rawValue, token.index + 1)

\* a plain Error of the parser's coherency checks
coherencyError(message) == ParseError("Error", message, "", 0)

\* new ParseContext(expression, ...) past its length check
ParseContext ==
  [lexicalAnalyzer |-> LexicalAnalyzer, operands |-> <<>>, operators |-> <<>>,
   token |-> NoToken, lastToken |-> NoToken, error |-> NoError, result |-> <<>>]

\* throw err
parseThrow(context, err) == IF context.error.kind # "none" THEN context
                            ELSE [context EXCEPT !.error = err]

\* Token.toNode
toNode(token) ==
  CASE token.kind \in {"StartIndex", "Dereference"} -> ContainerNode("Index", <<>>)
    [] token.kind = "LogicalOperator" /\ token.rawValue = "!" -> ContainerNode("Not", <<>>)
    [] token.kind = "LogicalOperator" /\ token.rawValue = "!=" -> ContainerNode("NotEqual", <<>>)
    [] token.kind = "LogicalOperator" /\ token.rawValue = ">" -> ContainerNode("GreaterThan", <<>>)
    [] token.kind = "LogicalOperator" /\ token.rawValue = ">=" ->
         ContainerNode("GreaterThanOrEqual", <<>>)
    [] token.kind = "LogicalOperator" /\ token.rawValue = "<" -> ContainerNode("LessThan", <<>>)
    [] token.kind = "LogicalOperator" /\ token.rawValue = "<=" ->
         ContainerNode("LessThanOrEqual", <<>>)
    [] token.kind = "LogicalOperator" /\ token.rawValue = "==" -> ContainerNode("Equal", <<>>)
    [] token.kind = "LogicalOperator" /\ token.rawValue = "&&" -> ContainerNode("And", <<>>)
    [] token.kind = "LogicalOperator" /\ token.rawValue = "||" -> ContainerNode("Or", <<>>)
    [] token.kind \in {"Null", "Boolean", "Number", "String"} -> LiteralNode(token.parsedValue)
    [] token.kind = "PropertyName" -> LiteralNode(StringValue(token.rawValue))
    [] OTHER -> ExpressionNode("Wildcard", "*", NullValue, <<>>)

\* node.nodeType === NodeType.Container
isContainer(node) == node.type \notin {"Literal", "Wildcard", "NamedContext"}

\* pushOperand
pushOperand(context) ==
  LET token == context.token
  IN  IF context.error.kind # "none" THEN context
      ELSE IF token.kind = "Function"
      THEN IF parseFunctionInfo(token.rawValue) # {}
           THEN [context EXCEPT !.operands = Append(@, FunctionNode(token.rawValue, <<>>))]
           ELSE parseThrow(context, createParseError("UnrecognizedFunction", token))
      ELSE IF token.kind = "NamedContext"
      THEN IF parseNamedContext(token.rawValue) # {}
           THEN [context EXCEPT
                   !.operands = Append(@, NamedContextNode(token.rawValue, NullValue))]
           ELSE parseThrow(context, createParseError("UnrecognizedNamedContext", token))
      ELSE [context EXCEPT !.operands = Append(@, toNode(token))]

\* the top of the operator stack
topOperator(context) == context.operators[Len(context.operators)]

\* popOperands(context, count): the stack without them, and they in their listed order
popOperands(context, count) ==
  [context |-> [context EXCEPT !.operands = SubSeq(@, 1, Len(@) - count)],
   operands |-> SubSeq(context.operands, Len(context.operands) - count + 1,
                       Len(context.operands))]

\* popOperator(context, expected)
popOperator(context, expected) ==
  IF context.error.kind # "none" THEN context
  ELSE IF context.operators = <<>> \/ topOperator(context).kind # expected
  THEN parseThrow(context, coherencyError("Expected operator to be popped"))
  ELSE [context EXCEPT !.operators = SubSeq(@, 1, Len(@) - 1)]

\* the parameters a node gets from operands from the k-th on, keeping every operand whole
RECURSIVE addOperandsNested(_, _, _)
addOperandsNested(node, operands, k) ==
  IF k > Len(operands) THEN node
  ELSE addOperandsNested([node EXCEPT !.parameters = Append(@, operands[k])], operands, k + 1)

\* the loop of flushTopOperator: an And operand of an And, an Or operand of an Or, gives
\* its parameters in place of itself
RECURSIVE addOperands(_, _, _)
addOperands(node, operands, k) ==
  IF k > Len(operands) THEN node
  ELSE IF node.type \in {"And", "Or"} /\ operands[k].type = node.type
  THEN addOperands([node EXCEPT !.parameters = @ \o operands[k].parameters], operands, k + 1)
  ELSE addOperands([node EXCEPT !.parameters = Append(@, operands[k])], operands, k + 1)

\* flushTopEndGroup
flushTopEndGroup(context) == popOperator(popOperator(context, "EndGroup"), "StartGroup")

\* flushTopEndIndex
flushTopEndIndex(context) ==
  LET popped == popOperator(popOperator(context, "EndIndex"), "StartIndex")
      taken == popOperands(popped, 2)
  IN  IF popped.error.kind # "none" THEN popped
      ELSE IF Len(popped.operands) < 2
      THEN parseThrow(popped, coherencyError("operand missing"))
      ELSE [taken.context EXCEPT
              !.operands = Append(@, addOperandsNested(ContainerNode("Index", <<>>),
                                                       taken.operands, 1))]

\* the separators on top of the operator stack
RECURSIVE separatorsOnTop(_, _)
separatorsOnTop(operators, k) ==
  IF k >= 1 /\ operators[k].kind = "Separator" THEN 1 + separatorsOnTop(operators, k - 1) ELSE 0

\* flushTopEndParameters: the function node is on the operand stack below its parameters
flushTopEndParameters(context) ==
  LET ended == popOperator(context, "EndParameters")
      noParameters == context.lastToken.kind = "StartParameters"
      separators == IF noParameters THEN 0
                    ELSE separatorsOnTop(ended.operators, Len(ended.operators))
      parameterCount == IF noParameters THEN 0 ELSE separators + 1
      unseparated == [ended EXCEPT !.operators = SubSeq(@, 1, Len(@) - separators)]
      taken == popOperands(unseparated, parameterCount)
      at == Len(taken.context.operands)
      func == addOperandsNested(taken.context.operands[at], taken.operands, 1)
      filled == [taken.context EXCEPT !.operands[at] = func]
      started == topOperator(filled)
      opened == popOperator(filled, "StartParameters")
  IN  IF ended.error.kind # "none" THEN ended
      ELSE IF topOperator(context) # context.token
      THEN parseThrow(ended, coherencyError("Expected the operator to be the current token"))
      ELSE IF Len(unseparated.operands) < parameterCount + 1
      THEN parseThrow(ended, coherencyError("operand missing"))
      ELSE IF opened.error.kind # "none" THEN opened
      ELSE IF \E f \in parseFunctionInfo(func.name) : Len(func.parameters) < f.minParameters
      THEN parseThrow(opened, createParseError("TooFewParameters", started))
      ELSE IF \E f \in parseFunctionInfo(func.name) : Len(func.parameters) > f.maxParameters
      THEN parseThrow(opened, createParseError("TooManyParameters", started))
      ELSE opened

\* a flushTopOperator that nests an operand of the same operator
flushTopOperatorNested(context) ==
  LET operator == topOperator(context)
      popped == [context EXCEPT !.operators = SubSeq(@, 1, Len(@) - 1)]
      taken == popOperands(popped, operandCount(operator))
  IN  IF context.error.kind # "none" THEN context
      ELSE IF operator.kind = "EndIndex" THEN flushTopEndIndex(context)
      ELSE IF operator.kind = "EndGroup" THEN flushTopEndGroup(context)
      ELSE IF operator.kind = "EndParameters" THEN flushTopEndParameters(context)
      ELSE IF operator.kind \in {"StartGroup", "StartParameters", "Separator"}
              \/ Len(popped.operands) < operandCount(operator)
      THEN parseThrow(popped, coherencyError("Unexpected kind when creating node"))
      ELSE [taken.context EXCEPT
              !.operands = Append(@, addOperandsNested(toNode(operator), taken.operands, 1))]

\* flushTopOperator
flushTopOperator(context) ==
  LET operator == topOperator(context)
      popped == [context EXCEPT !.operators = SubSeq(@, 1, Len(@) - 1)]
      taken == popOperands(popped, operandCount(operator))
  IN  IF context.error.kind # "none" THEN context
      ELSE IF operator.kind = "EndIndex" THEN flushTopEndIndex(context)
      ELSE IF operator.kind = "EndGroup" THEN flushTopEndGroup(context)
      ELSE IF operator.kind = "EndParameters" THEN flushTopEndParameters(context)
      ELSE IF operator.kind \in {"StartGroup", "StartParameters", "Separator"}
              \/ Len(popped.operands) < operandCount(operator)
      THEN parseThrow(popped, coherencyError("Unexpected kind when creating node"))
      ELSE [taken.context EXCEPT
              !.operands = Append(@, addOperands(toNode(operator), taken.operands, 1))]

\* the loop of pushOperator: flush the operators of higher or equal precedence
RECURSIVE flushHigher(_)
flushHigher(context) ==
  IF context.error.kind # "none" \/ context.operators = <<>> THEN context
  ELSE IF /\ precedence(context.token) <= precedence(topOperator(context))
          /\ topOperator(context).kind \notin {"StartGroup", "StartIndex", "StartParameters",
                                               "Separator"}
  THEN flushHigher(flushTopOperator(context))
  ELSE context

\* pushOperator
pushOperator(context) ==
  LET flushed == IF associativity(context.token) = "LeftToRight" THEN flushHigher(context)
                 ELSE context
      pushed == [flushed EXCEPT !.operators = Append(@, context.token)]
  IN  IF flushed.error.kind # "none" THEN flushed
      ELSE IF context.token.kind \in {"EndGroup", "EndIndex", "EndParameters"}
      THEN flushTopOperator(pushed)
      ELSE pushed

\* the parameters of the containers among nodes, from the k-th node on
RECURSIVE parametersOf(_, _)
parametersOf(nodes, k) ==
  IF k > Len(nodes) THEN <<>>
  ELSE (IF isContainer(nodes[k]) THEN nodes[k].parameters ELSE <<>>) \o parametersOf(nodes, k + 1)

\* the number of levels at and below nodes, the nodes of one level of a tree
RECURSIVE levelsOf(_)
levelsOf(nodes) ==
  IF nodes = <<>> THEN 0
  ELSE LET second == parametersOf(nodes, 1)
           third == parametersOf(second, 1)
           fourth == parametersOf(third, 1)
       IN  IF second = <<>> THEN 1
           ELSE IF third = <<>> THEN 2
           ELSE IF fourth = <<>> THEN 3
           ELSE 3 + levelsOf(fourth)

\* the depth of a tree as checkMaxDepth walks it: a node alone is 1 deep
depthOfTree(node) == levelsOf(<<node>>)

\* some node lies at a depth beyond MAX_DEPTH, nodes being the nodes at depth
RECURSIVE exceedsMaxDepth(_, _)
exceedsMaxDepth(nodes, depth) ==
  IF nodes = <<>> THEN FALSE
  ELSE IF depth > MAX_DEPTH THEN TRUE
  ELSE exceedsMaxDepth(parametersOf(nodes, 1), depth + 1)

\* a checkMaxDepth that does not look below the root
checkMaxDepthOfRoot(context, node, depth) ==
  IF depth > MAX_DEPTH
  THEN parseThrow(context, createParseError("ExceededMaxDepth", NoToken))
  ELSE context

\* checkMaxDepth(context, node, depth): throws when it comes to a node deeper than
\* MAX_DEPTH, on its way through the parameters of every container
checkMaxDepth(context, node, depth) ==
  IF exceedsMaxDepth(<<node>>, depth)
  THEN parseThrow(context, createParseError("ExceededMaxDepth", NoToken))
  ELSE context

\* the flushing of every operator left at the end of the expression
RECURSIVE flushAll(_)
flushAll(context) ==
  IF context.error.kind # "none" \/ context.operators = <<>> THEN context
  ELSE flushAll(flushTopOperator(context))

\* createTreeInternal once the tokens are pushed; context.lastToken is a token
finishTree(context) ==
  LET last == context.lastToken
      unexpectedLastToken ==
        IF last.kind \in {"EndGroup", "EndIndex", "EndParameters"} THEN FALSE
        ELSE IF last.kind = "Function" THEN TRUE
        ELSE isOperator(last)
      flushed == flushAll(context)
      checked == checkMaxDepth(flushed, flushed.operands[1], 1)
  IN  IF /\ context.operators # <<>>
         /\ unexpectedLastToken \/ hasUnclosedTokens(context.lexicalAnalyzer)
      THEN parseThrow(context, createParseError("UnexpectedEndOfExpression", last))
      ELSE IF flushed.error.kind # "none" THEN flushed
      ELSE IF Len(flushed.operands) # 1
      THEN parseThrow(flushed, coherencyError("Expected exactly one operand"))
      ELSE IF checked.error.kind # "none" THEN checked
      ELSE [checked EXCEPT !.result = <<flushed.operands[1]>>]

\* one round of the loop of createTreeInternal for the token the analyzer returned
pushToken(context, lexed) ==
  LET got == [context EXCEPT !.lexicalAnalyzer = lexed.lx, !.token = lexed.token]
      pushed == IF lexed.token.kind = "Unexpected"
                THEN parseThrow(got, createParseError("UnexpectedSymbol", lexed.token))
                ELSE IF isOperator(lexed.token) THEN pushOperator(got)
                ELSE pushOperand(got)
  IN  IF pushed.error.kind # "none" THEN pushed
      ELSE [pushed EXCEPT !.lastToken = pushed.token]

(***************************************************************************)
(* SpecParse: createExpressionTree on an expression, a token at a time.    *)
(***************************************************************************)
MaxChars == 3

\* the characters the expressions are written in
SampleChars == {"(", ")", "[", "]", ",", "!", "&", "|", "=", "1", "c", "'", ".", "*", " "}

\* n times the character c
Repeat(c, n) == [k \in 1..n |-> c]

\* n times the characters of text
RECURSIVE RepeatText(_, _)
RepeatText(text, n) == IF n = 0 THEN <<>> ELSE text \o RepeatText(text, n - 1)

\* the longer expressions: operators of one kind and of two, grouped and not, calls,
\* indexes, properties, closing tokens that do not match, and trees 50 and 51 deep
SampleTexts ==
  { <<"a", "&", "&", "b", "&", "&", "c">>,
    <<"a", "|", "|", "b", "|", "|", "c">>,
    <<"(", "a", "&", "&", "b", ")", "&", "&", "c">>,
    <<"a", "&", "&", "(", "b", "&", "&", "c", ")">>,
    <<"a", "|", "|", "(", "b", "|", "|", "c", ")">>,
    <<"(", "a", "|", "|", "b", ")", "|", "|", "(", "c", "|", "|", "d", ")">>,
    <<"a", "&", "&", "(", "b", "|", "|", "c", ")">>,
    <<"a", "&", "&", "b", "|", "|", "c", "&", "&", "d">>,
    <<"!", "(", "a", "&", "&", "b", ")", "&", "&", "c">>,
    <<"a", "&", "&", "(", "b", "&", "&", "(", "c", "&", "&", "d", ")", ")">>,
    <<"1", "=", "=", "1", "&", "&", "c", "&", "&", "c">>,
    <<"j", "o", "i", "n", "(", "c", ",", "1", ")">>,
    <<"j", "o", "i", "n", "(", ")">>,
    <<"j", "o", "i", "n", "(", "c", ",", "1", ",", "1", ")">>,
    <<"j", "o", "i", "n", "(", "c", "]">>,
    <<"f", "(", "1", "&", "&", "1", "&", "&", "1", ",", "c", ")">>,
    <<"g", "(", "1", ")">>,
    <<"c", "[", "1", "]", "[", "1", "]">>,
    <<"c", ".", "a", ".", "*">>,
    <<"c", "[", "(", "1", "]", ")">>,
    <<"c", "[", "(", "1", ")", "]">>,
    <<"(", "c", "[", "1", ")">>,
    <<"(", "(", "1", ")", ")">>,
    <<"(", "1", ")", ")">>,
    <<"t", "r", "u", "e", " ", "&", "&", " ", " ", "e">>,
    <<"1", " ", " ", "&", " ", "1">>,
    <<"'", "a", "'", "'", "'", "=", "=", "1", ".", "1">>,
    <<"!", "!", "!", "c", ".", "a", "[", "1", "]">>,
    <<"c">> \o RepeatText(<<"[", "1", "]">>, MAX_DEPTH - 1),
    <<"c">> \o RepeatText(<<"[", "1", "]">>, MAX_DEPTH),
    RepeatText(<<"f", "(">>, MAX_DEPTH - 1) \o <<"1">> \o Repeat(")", MAX_DEPTH - 1),
    RepeatText(<<"f", "(">>, MAX_DEPTH) \o <<"1">> \o Repeat(")", MAX_DEPTH),
    Repeat("(", MAX_DEPTH + 1) \o <<"1">> \o Repeat(")", MAX_DEPTH + 1) }

\* the expressions parsed: every text of up to MaxChars characters, and the longer ones,
\* as they are, filled up with blanks to MAX_LENGTH and to one more
SampleExpressions ==
  {Expression(text, 0) : text \in SeqsUpTo(SampleChars, MaxChars) \cup SampleTexts}
  \cup {Expression(text, MAX_LENGTH - Len(text) + more) :
          text \in SampleTexts \cup {<<>>, <<"1">>, <<"c", ")">>}, more \in {0, 1}}

ParseInit ==
  /\ exprText \in SampleExpressions
  /\ lexer = <<>>
  /\ parser = <<>>
  /\ parsePhase = "new"
  /\ argv = <<>>
  /\ cli = <<>>
  /\ UnitIdle
  /\ maxBytes = 0
  /\ maxDepth = 0
  /\ currentBytes = 0
  /\ currentDepth = 0
  /\ thrown = "none"
  /\ lastOp = "new"
  /\ lastAmount = 0
  /\ prevBytes = 0
  /\ prevDepth = 0
  /\ EvalIdle
  /\ UnravelIdle
  /\ ReaderIdle
  /\ ExprIdle
  /\ TokenIdle

\* the state after a step of createExpressionTree left the context as it is in context
ParseReturn(context, at) ==
  /\ parser' = context
  /\ lexer' = context.lexicalAnalyzer
  /\ parsePhase' = IF context.error.kind # "none" THEN "failed" ELSE at
  /\ UNCHANGED <<exprText, cliVars, unitVars, memVars, evalVars, unravelVars, readerVars, exprVars,
                 tokenVars>>

\* new ParseContext(expression, ...): the length check, then the analyzer
NewParseContext ==
  /\ parsePhase = "new"
  /\ ParseReturn(IF lengthOf(exprText) > MAX_LENGTH
                 THEN parseThrow(ParseContext, createParseError("ExceededMaxLength", NoToken))
                 ELSE ParseContext, "parsing")

\* one round of the loop of createTreeInternal: a token is read and pushed
PushToken ==
  /\ parsePhase = "parsing"
  /\ getNextToken(exprText, lexer).token.kind # "none"
  /\ ParseReturn(pushToken(parser, getNextToken(exprText, lexer)), "parsing")

\* the end of createTreeInternal: no more tokens
FinishTree ==
  /\ parsePhase = "parsing"
  /\ getNextToken(exprText, lexer).token.kind = "none"
  /\ ParseReturn(IF parser.lastToken.kind = "none"
                 THEN [parser EXCEPT !.lexicalAnalyzer = getNextToken(exprText, lexer).lx]
                 ELSE finishTree([parser EXCEPT
                                    !.lexicalAnalyzer = getNextToken(exprText, lexer).lx]),
                 "done")

ParseNext ==
  \/ NewParseContext
  \/ PushToken
  \/ FinishTree

SpecParse == ParseInit /\ [][ParseNext]_vars

\* a step of the parser has been taken
Parsing == parsePhase \in {"parsing", "done", "failed"}

\* where the token before the one just read ends, 0 at the start of the expression
lastTokenEnd ==
  IF parser.lastToken.kind = "none" THEN 0
  ELSE parser.lastToken.index + Len(parser.lastToken.rawValue)

\* the analyzer has just answered with an Unexpected token
UnexpectedRead == Parsing /\ parser.token.kind = "Unexpected"

\* the kinds of error createParseError makes
ParseErrorKinds ==
  {"ExceededMaxDepth", "ExceededMaxLength", "TooFewParameters", "TooManyParameters",
   "UnexpectedEndOfExpression", "UnexpectedSymbol", "UnrecognizedFunction",
   "UnrecognizedNamedContext"}

\* C21: for an illegal token sequence the lexer does not throw but returns a token of
\* kind Unexpected, and the parser then raises a parse error that carries the error kind
\* (UnexpectedSymbol, with its description) and the one-based position of that token:
\* the first character after the blanks that follow the token before it, where the
\* token's raw value stands in the expression.
C21_UnexpectedTokenBecomesParseError ==
  UnexpectedRead =>
    /\ parsePhase = "failed"
    /\ parser.error.kind = "UnexpectedSymbol"
    /\ parser.error.description = "Unexpected symbol"
    /\ parser.error.rawValue = parser.token.rawValue
    /\ parser.error.position = parser.token.index + 1
    /\ parser.error.position = skipWhitespace(exprText, lastTokenEnd) + 1
    /\ substr(exprText, parser.error.position - 1, Len(parser.token.rawValue))
         = parser.token.rawValue
    /\ parser.result = <<>>

\* "1  & 1": the lone & at position 4 is Unexpected, after a legal token and blanks
C21_Witness ==
  /\ UnexpectedRead
  /\ exprText = Expression(<<"1", " ", " ", "&", " ", "1">>, 0)
  /\ parser.lastToken.kind = "Number"
  /\ parser.error.kind = "UnexpectedSymbol"
  /\ parser.error.position = 4

\* C22: every expression the parser accepts has a source of at most 21,000 characters
\* and a tree at most 50 deep; a longer source or a deeper tree is rejected with a
\* parse error.
C22_LengthAndDepthLimits ==
  /\ (parsePhase = "done" /\ parser.result # <<>>) =>
       /\ lengthOf(exprText) <= 21000
       /\ depthOfTree(parser.result[1]) <= 50
  /\ (Parsing /\ lengthOf(exprText) > 21000) =>
       /\ parsePhase = "failed"
       /\ parser.error.kind = "ExceededMaxLength"
  /\ (parsePhase \in {"done", "failed"} /\ lengthOf(exprText) <= 21000
      /\ Len(parser.operands) = 1 /\ parser.operators = <<>>
      /\ depthOfTree(parser.operands[1]) > 50) =>
       /\ parsePhase = "failed"
       /\ parser.error.kind \in ParseErrorKinds
       /\ parser.result = <<>>

\* an expression of exactly 21,000 characters with a tree exactly 50 deep is accepted
C22_Witness ==
  /\ parsePhase = "done"
  /\ parser.result # <<>>
  /\ lengthOf(exprText) = 21000
  /\ depthOfTree(parser.result[1]) = 50

\* a closing character: ")" or "]"
closingRead(token) == token.rawValue \in {")", "]"}

\* the analyzer has read one more token in this step
TokenRead ==
  /\ parsePhase = "parsing"
  /\ parser'.token.kind # "none"
  /\ parser'.token.index >= lexer.index

\* the closing token matches the open token on top of the stack
matchesTop(token, unclosed) ==
  /\ unclosed # <<>>
  /\ \/ token.rawValue = ")" /\ unclosed[Len(unclosed)].kind \in {"StartGroup", "StartParameters"}
     \/ token.rawValue = "]" /\ unclosed[Len(unclosed)].kind = "StartIndex"

\* C28: the lexer keeps a stack of open tokens (group "(", index "[", function-call "(");
\* an open token is pushed, a closing token is accepted only if it matches the open
\* token on top of the stack, which it then pops, and any other closing token yields an
\* Unexpected token and leaves the stack as it is.
C28_ClosingMatchesTop ==
  [][TokenRead =>
       LET token == parser'.token
           before == lexer.unclosedTokens
           after == lexer'.unclosedTokens
       IN  /\ token.kind \in {"StartGroup", "StartIndex", "StartParameters"} =>
                after = Append(before, token)
           /\ token.kind \in {"EndGroup", "EndIndex", "EndParameters"} =>
                /\ closingRead(token)
                /\ matchesTop(token, before)
                /\ after = SubSeq(before, 1, Len(before) - 1)
                /\ (token.kind = "EndParameters") = (before[Len(before)].kind = "StartParameters")
           /\ (closingRead(token) /\ ~matchesTop(token, before)) =>
                /\ token.kind = "Unexpected"
                /\ after = before
           /\ token.kind \notin {"StartGroup", "StartIndex", "StartParameters", "EndGroup",
                                 "EndIndex", "EndParameters"} => after = before]_vars

\* "c[(1)]": the ")" has closed the group and left the index open
C28_Witness ==
  /\ parsePhase = "parsing"
  /\ exprText = Expression(<<"c", "[", "(", "1", ")", "]">>, 0)
  /\ parser.token.kind = "EndGroup"
  /\ Len(lexer.unclosedTokens) = 1
  /\ lexer.unclosedTokens[1].kind = "StartIndex"

\* no && node has an && node as a direct operand, no || node an || node, anywhere in the tree
RECURSIVE Flattened(_)
Flattened(node) ==
  \A k \in 1..Len(node.parameters) :
    /\ ~(node.type \in {"And", "Or"} /\ node.parameters[k].type = node.type)
    /\ Flattened(node.parameters[k])

\* the named contexts of a tree from left to right
RECURSIVE leavesOf(_), leavesFrom(_, _)
leavesOf(node) ==
  IF node.type = "NamedContext" THEN <<node.name>>
  ELSE leavesFrom(node.parameters, 1)

leavesFrom(parameters, k) ==
  IF k > Len(parameters) THEN <<>>
  ELSE leavesOf(parameters[k]) \o leavesFrom(parameters, k + 1)

\* the characters of a text that are among chars, in their order
RECURSIVE restrictedTo(_, _)
restrictedTo(text, chars) ==
  IF text = <<>> THEN <<>>
  ELSE (IF text[1] \in chars THEN <<text[1]>> ELSE <<>>) \o restrictedTo(Tail(text), chars)

\* the expression is made of named contexts of one letter, &&, ||, ! and groups
OnlyLogic ==
  \A k \in 1..Len(exprText.text) :
    exprText.text[k] \in ParseNamedContexts \cup {"&", "|", "!", "(", ")", " "}

\* C29: in every tree the parser returns no && node has an && node as a direct operand
\* and no || node has an || node as a direct operand: operands of the same operator are
\* spliced into the parent, and the operands keep their left-to-right order.
C29_SameOperatorFlattened ==
  (parsePhase = "done" /\ parser.result # <<>>) =>
    /\ Flattened(parser.result[1])
    /\ OnlyLogic => leavesOf(parser.result[1]) = restrictedTo(exprText.text, ParseNamedContexts)

\* "a&&(b&&(c&&d))" is returned as one && of a, b, c and d
C29_Witness ==
  /\ parsePhase = "done"
  /\ exprText.text = <<"a", "&", "&", "(", "b", "&", "&", "(", "c", "&", "&", "d", ")", ")">>
  /\ parser.result # <<>>
  /\ parser.result[1].type = "And"
  /\ Len(parser.result[1].parameters) = 4
  /\ leavesOf(parser.result[1]) = <<"a", "b", "c", "d">>

(***************************************************************************)
(* TemplateValidationErrors (templates/template-context.ts)                *)
(* A message is the sequence of its characters.                            *)
(***************************************************************************)

\* the bounds of the collectors looked at
MaxErrorsGiven == 2
MaxMessageLengthGiven == 2
MaxMessage == 3
MaxAddCalls == 2

\* new TemplateValidationError(message, code)
TemplateValidationError(message, code) == [message |-> message, code |-> code]

\* an optional constructor argument: <<>> when left out, <<n>> when given; given ?? 0
orZero(given) == IF given = <<>> THEN 0 ELSE given[1]

\* new TemplateValidationErrors(maxErrors, maxMessageLength); offered is the history
\* of the errors handed to add since the construction or the last clear, calls the
\* number of calls made
TemplateValidationErrors(maxErrors, maxMessageLength) ==
  [_maxErrors |-> orZero(maxErrors),
   _maxMessageLength |-> orZero(maxMessageLength),
   _errors |-> <<>>,
   offered |-> <<>>,
   calls |-> 0]

\* message.substr(0, length)
substrFromStart(message, length) ==
  SubSeq(message, 1, IF length < Len(message) THEN length ELSE Len(message))

\* the suffix of a message that was cut
Ellipsis == <<"[", ".", ".", ".", "]">>

\* an add that stores every message whole
RECURSIVE addWhole(_, _, _)
addWhole(c, errs, k) ==
  IF k > Len(errs) THEN c
  ELSE addWhole(
         IF c._maxErrors <= 0 \/ Len(c._errors) < c._maxErrors
         THEN [c EXCEPT !._errors = Append(@, errs[k])]
         ELSE c,
         errs, k + 1)

\* an add that stores every error
RECURSIVE addAll(_, _, _)
addAll(c, errs, k) ==
  IF k > Len(errs) THEN c
  ELSE addAll(
         [c EXCEPT !._errors =
            Append(@, IF c._maxMessageLength > 0 /\ Len(errs[k].message) > c._maxMessageLength
                      THEN TemplateValidationError(
                             substrFromStart(errs[k].message, c._maxMessageLength) \o Ellipsis,
                             errs[k].code)
                      ELSE errs[k])],
         errs, k + 1)

\* TemplateValidationErrors.add: the loop over errs, from the k-th error on
RECURSIVE add(_, _, _)
add(c, errs, k) ==
  IF k > Len(errs) THEN c
  ELSE LET e == errs[k]
           cut ==
             IF c._maxMessageLength > 0 /\ Len(e.message) > c._maxMessageLength
             THEN TemplateValidationError(
                    substrFromStart(e.message, c._maxMessageLength) \o Ellipsis, e.code)
             ELSE e
       IN  add(IF c._maxErrors <= 0 \/ Len(c._errors) < c._maxErrors
               THEN [c EXCEPT !._errors = Append(@, cut)]
               ELSE c,
               errs, k + 1)

\* TemplateValidationErrors.clear
clear(c) == [c EXCEPT !._errors = <<>>, !.offered = <<>>]

\* the limits a caller gives: none, or a number
GivenLimits(n) == {<<>>} \cup {<<k>> : k \in (-1)..n}

\* the errors a caller adds
MessageText == <<"a", "b", "c", "d", "e", "f">>
SampleMessages == {SubSeq(MessageText, 1, k) : k \in 0..MaxMessage} \cup {<<"b">>}
SampleErrors == {TemplateValidationError(m, "") : m \in SampleMessages}

CollectorInit ==
  /\ collector = [at |-> "new"]
  /\ formatter = <<>>
  /\ mappingToken = <<>>
  /\ schemaDef = <<>>
  /\ exprText = <<>>
  /\ lexer = <<>>
  /\ parser = <<>>
  /\ parsePhase = "idle"
  /\ argv = <<>>
  /\ cli = <<>>
  /\ maxBytes = 0
  /\ maxDepth = 0
  /\ currentBytes = 0
  /\ currentDepth = 0
  /\ thrown = "none"
  /\ lastOp = "new"
  /\ lastAmount = 0
  /\ prevBytes = 0
  /\ prevDepth = 0
  /\ EvalIdle
  /\ UnravelIdle
  /\ ReaderIdle
  /\ ExprIdle
  /\ TokenIdle

CollectorReturn(c) ==
  /\ collector' = c
  /\ UNCHANGED <<formatter, mappingToken, schemaDef, parseVars, cliVars, memVars, evalVars,
                 unravelVars, readerVars, exprVars, tokenVars>>

\* new TemplateValidationErrors(maxErrors, maxMessageLength)
NewCollector ==
  /\ collector = [at |-> "new"]
  /\ \E maxErrors \in GivenLimits(MaxErrorsGiven),
        maxMessageLength \in GivenLimits(MaxMessageLengthGiven) :
       CollectorReturn(TemplateValidationErrors(maxErrors, maxMessageLength))

\* errors.add(err), err one error or an array of errors
AddErrors ==
  /\ collector # [at |-> "new"]
  /\ collector.calls < MaxAddCalls
  /\ \E errs \in SeqsUpTo(SampleErrors, 2) \ {<<>>} :
       CollectorReturn(
         [add(collector, errs, 1) EXCEPT !.offered = @ \o errs, !.calls = @ + 1])

\* errors.clear()
ClearErrors ==
  /\ collector # [at |-> "new"]
  /\ collector._errors # <<>>
  /\ collector.calls < MaxAddCalls
  /\ CollectorReturn([clear(collector) EXCEPT !.calls = @ + 1])

CollectorNext ==
  \/ NewCollector
  \/ AddErrors
  \/ ClearErrors

SpecCollector == CollectorInit /\ [][CollectorNext]_vars

\* a message as the claim has it stored under a cap
cutTo(message, cap) ==
  IF Len(message) > cap THEN SubSeq(message, 1, cap) \o Ellipsis ELSE message

\* C31 as stated: the collector never holds more errors than its maximum error
\* count, the errors it holds are the first ones offered, and each is stored with
\* its message cut to the per-message cap and suffixed with "[...]" when longer
C31_CountAndLengthCapped ==
  collector # [at |-> "new"] =>
    /\ Len(collector._errors) <= collector._maxErrors
    /\ Len(collector._errors) <= Len(collector.offered)
    /\ \A i \in 1..Len(collector._errors) :
         collector._errors[i].message =
           cutTo(collector.offered[i].message, collector._maxMessageLength)

\* C31, amended: a maximum of zero or less (the default) is no maximum; under a
\* positive maximum error count the collector holds the first errors offered up to
\* that count and drops the rest; under a positive per-message cap a longer message
\* is stored cut to the cap and suffixed with "[...]", and else it is stored whole
C31_PositiveLimitsEnforced ==
  collector # [at |-> "new"] =>
    LET c == collector
        held == IF c._maxErrors > 0 /\ Len(c.offered) > c._maxErrors
                THEN c._maxErrors ELSE Len(c.offered)
    IN  /\ Len(c._errors) = held
        /\ \A i \in 1..Len(c._errors) :
             /\ c._errors[i].code = c.offered[i].code
             /\ c._errors[i].message =
                  IF c._maxMessageLength > 0
                  THEN cutTo(c.offered[i].message, c._maxMessageLength)
                  ELSE c.offered[i].message

\* errors were dropped under a positive maximum and a message was cut
C31_Witness ==
  /\ collector # [at |-> "new"]
  /\ collector._maxErrors > 0
  /\ Len(collector.offered) > collector._maxErrors
  /\ Len(collector._errors) = collector._maxErrors
  /\ collector._maxMessageLength > 0
  /\ \E i \in 1..Len(collector._errors) :
       /\ Len(collector.offered[i].message) > collector._maxMessageLength
       /\ Len(collector._errors[i].message) = collector._maxMessageLength + 5

\* the places of the history where op was called
callsOf(op) == {i \in 1..Len(readerCalls) : readerCalls[i].op = op}

\* nothing was thrown in readTemplate
ReadCompleted == readerPhase = "read" /\ callsOf("catch") = {}

\* the event that follows the root value of the document
DocumentEndAt == Len(objectEvents)

\* C32 as stated: in every readTemplate call validateStart is called exactly once
\* and before any allow call, validateEnd is called exactly once and after the root
\* value has been fully read, and a read that completes leaves no event of the
\* source unconsumed
C32_StartOnceEndOnce ==
  readerPhase = "read" =>
    /\ Cardinality(callsOf("validateStart")) = 1
    /\ readerCalls[1].op = "validateStart"
    /\ Cardinality(callsOf("validateEnd")) = 1
    /\ \A i \in callsOf("validateEnd") :
         /\ readerCalls[i].at = DocumentEndAt
         /\ \A j \in callsOf("allow") : j < i
    /\ ReadCompleted => readerPos = Len(objectEvents) + 1

\* C32, amended: validateStart is called exactly once and before any allow call;
\* validateEnd is called at most once, exactly when readValue returned the root
\* value, straight after it and after every allow call; a read on which nothing was
\* thrown called validateEnd after the root value was fully read and leaves no
\* event of the source unconsumed
C32_StartOnceEndAfterReturn ==
  readerPhase = "read" =>
    /\ Cardinality(callsOf("validateStart")) = 1
    /\ readerCalls[1].op = "validateStart"
    /\ Cardinality(callsOf("validateEnd")) <= 1
    /\ Cardinality(callsOf("validateEnd")) = Cardinality(callsOf("readValue"))
    /\ \A i \in callsOf("validateEnd") :
         /\ readerCalls[i - 1].op = "readValue"
         /\ \A j \in callsOf("allow") : j < i
    /\ ReadCompleted =>
         /\ \E i \in callsOf("validateEnd") : readerCalls[i].at = DocumentEndAt
         /\ readerPos = Len(objectEvents) + 1

\* a read of nested collections completed, validateEnd called last
C32_Witness ==
  /\ ReadCompleted
  /\ Len(readerCalls) > 6
  /\ readerCalls[Len(readerCalls)].op = "validateEnd"
  /\ readerValue.type \in {"sequence", "mapping"}
  /\ errors = <<>>

\* C35: when readTemplate returns, the depth counter equals its value at entry (it
\* is zero when readTemplate is entered), for every document, the documents that
\* produce diagnostics and those on which readTemplate catches an error included
C35_DepthRestoredOnReturn == readerPhase = "read" => currentDepth = 0

(***************************************************************************)
(* TemplateReader.parseScalar on the characters of a scalar, and the       *)
(* format function (expressions/nodes.ts).  A string is the sequence of    *)
(* its characters; positions count from 0 as in the source.                *)
(***************************************************************************)

\* string[index]
at0(string, index) == string[index + 1]

\* string.indexOf(c, from) for a character c
indexOfChar(string, c, from) ==
  LET found == {i \in from..(Len(string) - 1) : at0(string, i) = c}
  IN  IF found = {} THEN -1 ELSE CHOOSE i \in found : \A j \in found : i <= j

\* string.indexOf(pattern, from)
indexOfText(string, pattern, from) ==
  LET found == {i \in from..(Len(string) - Len(pattern)) :
                  SubSeq(string, i + 1, i + Len(pattern)) = pattern}
  IN  IF found = {} THEN -1 ELSE CHOOSE i \in found : \A j \in found : i <= j

\* string.substr(start, length)
substrOf(string, start, length) ==
  SubSeq(string, start + 1, IF start + length < Len(string) THEN start + length ELSE Len(string))

\* string.substr(start)
substrFrom(string, start) == SubSeq(string, start + 1, Len(string))

\* string.replace(/c/g, cc): every c doubled
RECURSIVE doubled(_, _, _)
doubled(string, cs, k) ==
  IF k > Len(string) THEN <<>>
  ELSE (IF string[k] \in cs THEN <<string[k], string[k]>> ELSE <<string[k]>>)
       \o doubled(string, cs, k + 1)

\* expressionUtility.stringEscape
stringEscape(value) == doubled(value, {"'"}, 1)

\* string.trim()
trim(string) ==
  LET inked == {i \in 1..Len(string) : string[i] # " "}
  IN  IF inked = {} THEN <<>>
      ELSE SubSeq(string, CHOOSE i \in inked : \A j \in inked : i <= j,
                  CHOOSE i \in inked : \A j \in inked : i >= j)

\* the characters of the text of the source
OpenExpressionChars == <<"$", "{", "{">>
CloseExpressionChars == <<"}", "}">>

\* a segment of a scalar: a string or a basic expression
Segment(type, value) == [type |-> type, value |-> value]

\* the result of the scalar reading: the kind of token, its text, and the error
\* recorded on the context
ScalarToken(kind, value, error) == [kind |-> kind, value |-> value, error |-> error]

\* TemplateReader.addString (of the segments)
addStringSegment(segments, value) ==
  IF Len(segments) > 0 /\ segments[Len(segments)].type = "string"
  THEN [segments EXCEPT ![Len(segments)] = Segment("string", @.value \o value)]
  ELSE Append(segments, Segment("string", value))

\* the for loop of parseScalar that looks for the end of an expression from i on:
\* the position of the closing brace, or -1, and the i the loop ends with
RECURSIVE findEndExpression(_, _, _)
findEndExpression(raw, i, inString) ==
  IF i >= Len(raw) THEN [endExpression |-> -1, i |-> i]
  ELSE IF at0(raw, i) = "'" THEN findEndExpression(raw, i + 1, ~inString)
  ELSE IF ~inString /\ at0(raw, i) = "}" /\ at0(raw, i - 1) = "}"
  THEN [endExpression |-> i, i |-> i + 1]
  ELSE findEndExpression(raw, i + 1, inString)

\* the expressions ExpressionToken.validateExpression accepts: the named contexts
\* the definition allows
AllowedExpressions == {<<"a">>, <<"b">>}

\* TemplateReader.parseExpression: "" when the expression is good, else the error
parseExpressionError(value) ==
  IF trim(value) = <<>> THEN "An expression was expected"
  ELSE IF trim(value) \in AllowedExpressions THEN ""
  ELSE "Unrecognized named-value"

\* the while loop of parseScalar from i on: the segments, or the error
RECURSIVE segmentsOf(_, _, _, _)
segmentsOf(raw, i, startExpression, segments) ==
  IF i >= Len(raw) THEN [segments |-> segments, error |-> ""]
  ELSE IF i = startExpression
  THEN LET found == findEndExpression(raw, i + Len(OpenExpressionChars), FALSE)
           rawExpression ==
             substrOf(raw, startExpression + Len(OpenExpressionChars),
                      found.endExpression - startExpression + 1
                      - Len(OpenExpressionChars) - Len(CloseExpressionChars))
       IN  IF found.endExpression < startExpression
           THEN [segments |-> segments, error |-> "The expression is not closed"]
           ELSE IF parseExpressionError(rawExpression) # ""
           THEN [segments |-> segments, error |-> parseExpressionError(rawExpression)]
           ELSE segmentsOf(raw, found.i, indexOfText(raw, OpenExpressionChars, found.i),
                           Append(segments, Segment("expression", trim(rawExpression))))
  ELSE IF i < startExpression
  THEN segmentsOf(raw, startExpression, startExpression,
                  addStringSegment(segments, substrOf(raw, i, startExpression - i)))
  ELSE [segments |-> addStringSegment(segments, substrFrom(raw, i)), error |-> ""]

\* TemplateReader.getExpressionString: <<text>>, or <<>> for undefined
RECURSIVE getExpressionString(_, _, _, _)
getExpressionString(trimmed, i, inString, result) ==
  IF i >= Len(trimmed) THEN <<result>>
  ELSE IF at0(trimmed, i) = "'"
  THEN getExpressionString(trimmed, i + 1, ~inString,
                           IF ~inString /\ i # 0 THEN Append(result, "'") ELSE result)
  ELSE IF ~inString THEN <<>>
  ELSE getExpressionString(trimmed, i + 1, inString, Append(result, at0(trimmed, i)))

\* the decimal digits of a small number
Digits == <<"0", "1", "2", "3", "4", "5", "6", "7", "8", "9">>
digitsOf(n) ==
  IF n < 10 THEN <<Digits[n + 1]>> ELSE <<Digits[(n \div 10) + 1], Digits[(n % 10) + 1]>>

\* a formatPart that leaves the braces of the literal text as they are
formatPartBare(segment, argIndex, rest) ==
  IF segment.type = "string"
  THEN [format |-> stringEscape(segment.value) \o rest.format, args |-> rest.args]
  ELSE [format |-> <<"{">> \o digitsOf(argIndex) \o <<"}">> \o rest.format,
        args |-> <<",", " ">> \o segment.value \o rest.args]

\* one round of the loop of parseScalar that builds the format string and the
\* arguments: the segment put before the parts of the segments behind it
formatPart(segment, argIndex, rest) ==
  IF segment.type = "string"
  THEN [format |-> doubled(stringEscape(segment.value), {"{", "}"}, 1) \o rest.format,
        args |-> rest.args]
  ELSE [format |-> <<"{">> \o digitsOf(argIndex) \o <<"}">> \o rest.format,
        args |-> <<",", " ">> \o segment.value \o rest.args]

\* the loop of parseScalar that builds the format string and the arguments
RECURSIVE formatParts(_, _, _)
formatParts(segments, k, argIndex) ==
  IF k > Len(segments) THEN [format |-> <<>>, args |-> <<>>]
  ELSE formatPart(segments[k], argIndex,
                  formatParts(segments, k + 1,
                              IF segments[k].type = "string" THEN argIndex ELSE argIndex + 1))

\* the expression parseScalar builds of several segments
formatExpression(segments) ==
  <<"f", "o", "r", "m", "a", "t", "(", "'">> \o formatParts(segments, 1, 0).format
  \o <<"'">> \o formatParts(segments, 1, 0).args \o <<")">>

\* TemplateReader.parseScalar on the string token raw
parseScalarOf(raw) ==
  LET startExpression == indexOfText(raw, OpenExpressionChars, 0)
      read == segmentsOf(raw, 0, startExpression, <<>>)
      segments == read.segments
  IN  IF startExpression < 0 THEN ScalarToken("string", raw, "")
      ELSE IF read.error # "" THEN ScalarToken("string", raw, read.error)
      ELSE IF Len(segments) = 1 /\ segments[1].type = "expression"
              /\ getExpressionString(segments[1].value, 0, FALSE, <<>>) # <<>>
      THEN ScalarToken("string", getExpressionString(segments[1].value, 0, FALSE, <<>>)[1], "")
      ELSE IF Len(segments) = 1 THEN ScalarToken("basic-expression", segments[1].value, "")
      ELSE ScalarToken("basic-expression", formatExpression(segments), "")

RECURSIVE createTreeNext(_, _)
RECURSIVE createTreeInternal(_, _, _)
\* the next round of the loop of createTreeInternal
createTreeNext(e, context) ==
  createTreeInternal(e, context, getNextToken(e, context.lexicalAnalyzer))

\* createExpressionTree: every token of e pushed, then the tree finished; lexed is
\* what getNextToken returned to the context
createTreeInternal(e, context, lexed) ==
  IF context.error.kind # "none" THEN context
  ELSE IF lexed.token.kind = "none"
  THEN finishTree([context EXCEPT !.lexicalAnalyzer = lexed.lx])
  ELSE createTreeNext(e, pushToken(context, lexed))

\* the characters of the string literal of e that opens at position open, as
\* readStringToken unescapes them; k is the position looked at
RECURSIVE literalChars(_, _)
literalChars(e, k) ==
  IF k >= Len(e) THEN <<>>
  ELSE IF at0(e, k) = "'"
  THEN IF k + 1 >= Len(e) \/ at0(e, k + 1) # "'" THEN <<>>
       ELSE <<"'">> \o literalChars(e, k + 2)
  ELSE <<at0(e, k)>> \o literalChars(e, k + 1)

\* Format.safeCharAt
safeCharAt(string, index) == IF Len(string) > index THEN at0(string, index) ELSE "\\0"

\* the number of digits of string from position k on
RECURSIVE digitCount(_, _)
digitCount(string, k) ==
  IF safeCharAt(string, k) \in DigitChars THEN 1 + digitCount(string, k + 1) ELSE 0

\* parseInt of the length digits of string from startIndex on
RECURSIVE parseIntOf(_, _, _)
parseIntOf(string, startIndex, length) ==
  IF length = 0 THEN 0
  ELSE 10 * parseIntOf(string, startIndex, length - 1)
       + digitValue(at0(string, startIndex + length - 1))

\* Format.readArgIndex
readArgIndex(string, startIndex) ==
  LET length == digitCount(string, startIndex)
  IN  IF length < 1 THEN [success |-> FALSE, result |-> 0, endIndex |-> 0]
      ELSE [success |-> TRUE, result |-> parseIntOf(string, startIndex, length),
            endIndex |-> startIndex + length - 1]

FormatSpecifiers(success, result, rbrace) ==
  [success |-> success, result |-> result, rbrace |-> rbrace]

\* the loop of readFormatSpecifiers from index on
RECURSIVE readSpecifiers(_, _, _)
readSpecifiers(string, index, specifiers) ==
  IF index >= Len(string) THEN FormatSpecifiers(FALSE, <<>>, 0)
  ELSE IF at0(string, index) # "}"
  THEN readSpecifiers(string, index + 1, Append(specifiers, at0(string, index)))
  ELSE IF safeCharAt(string, index + 1) = "}"
  THEN readSpecifiers(string, index + 2, Append(specifiers, "}"))
  ELSE FormatSpecifiers(TRUE, specifiers, index)

\* a readFormatSpecifiers that reads the specifiers from behind the colon on
readFormatSpecifiersBehindColon(string, startIndex) ==
  IF safeCharAt(string, startIndex) = "}" THEN FormatSpecifiers(TRUE, <<>>, startIndex)
  ELSE IF safeCharAt(string, startIndex) # ":" THEN FormatSpecifiers(FALSE, <<>>, 0)
  ELSE readSpecifiers(string, startIndex + 1, <<>>)

\* Format.readFormatSpecifiers; the loop starts with index = (startIndex = 1)
readFormatSpecifiers(string, startIndex) ==
  IF safeCharAt(string, startIndex) = "}" THEN FormatSpecifiers(TRUE, <<>>, startIndex)
  ELSE IF safeCharAt(string, startIndex) # ":" THEN FormatSpecifiers(FALSE, <<>>, 0)
  ELSE readSpecifiers(string, 1, <<>>)

\* a segment of the FormatResultBuilder: a string, or a lazy argument
StaticSegment(value) == [lazy |-> FALSE, value |-> value, argIndex |-> 0, specifiers |-> <<>>]
LazySegment(argIndex, specifiers) ==
  [lazy |-> TRUE, value |-> <<>>, argIndex |-> argIndex, specifiers |-> specifiers]

\* FormatResultBuilder.appendString
appendString(f, value) ==
  IF Len(value) > 0 THEN [f EXCEPT !.segments = Append(@, StaticSegment(value))] ELSE f

\* FormatResultBuilder.appendArgument
appendArgument(f, argIndex, specifiers) ==
  [f EXCEPT !.segments = Append(@, LazySegment(argIndex, specifiers))]

formatThrow(f, err) == [f EXCEPT !.at = "failed", !.error = err]

\* one round of the while loop of Format.evaluateCore; f.index < Len(f.format)
formatRound(f) ==
  LET format == f.format
      index == f.index
      lbrace == indexOfChar(format, "{", index)
      rbrace == indexOfChar(format, "}", index)
      argIndex == readArgIndex(format, lbrace + 1)
      formatSpecifiers == readFormatSpecifiers(format, argIndex.endIndex + 1)
  IN  IF lbrace >= 0 /\ (rbrace < 0 \/ rbrace > lbrace)
      THEN IF safeCharAt(format, lbrace + 1) = "{"
           THEN [appendString(f, substrOf(format, index, lbrace - index + 1))
                   EXCEPT !.index = lbrace + 2]
           ELSE IF rbrace > lbrace + 1 /\ argIndex.success /\ formatSpecifiers.success
           THEN IF argIndex.result > (Len(f.parameters) + 1) - 2
                THEN formatThrow(f, "references more arguments than were supplied")
                ELSE [appendArgument(
                        IF lbrace > index
                        THEN appendString(f, substrOf(format, index, lbrace - index))
                        ELSE f,
                        argIndex.result, formatSpecifiers.result)
                      EXCEPT !.index = formatSpecifiers.rbrace + 1,
                             !.lbrace = lbrace, !.rbrace = formatSpecifiers.rbrace]
           ELSE formatThrow(f, "format string is invalid")
      ELSE IF rbrace >= 0
      THEN IF safeCharAt(format, rbrace + 1) = "}"
           THEN [appendString(f, substrOf(format, index, rbrace - index + 1))
                   EXCEPT !.index = rbrace + 2]
           ELSE formatThrow(f, "format string is invalid")
      ELSE [appendString(f, substrFrom(format, index)) EXCEPT !.at = "scanned"]

\* the string of a segment put before the strings of the segments behind it
buildWith(string, rest) == IF rest = <<>> THEN <<>> ELSE <<string \o rest[1]>>

\* FormatResultBuilder.build from the k-th segment on: the segments joined, a lazy
\* one being the string of its argument; <<>> when a lazy segment throws
RECURSIVE build(_, _)
build(f, k) ==
  IF k > Len(f.segments) THEN <<<<>>>>
  ELSE IF f.segments[k].lazy /\ f.segments[k].specifiers # <<>> THEN <<>>
  ELSE buildWith(IF f.segments[k].lazy THEN f.values[f.parameters[f.segments[k].argIndex + 1]]
                 ELSE f.segments[k].value,
                 build(f, k + 1))

(***************************************************************************)
(* SpecFormat: a scalar read by parseScalar, or a format call written in   *)
(* an expression, and the evaluation of the expression a round at a time.  *)
(***************************************************************************)
MaxPieces == 4
MaxFormatPieces == 3
MaxRounds == 7

\* a piece of a sample scalar: literal text, or the expression named
ScalarPiece(name, text) == [name |-> name, text |-> text]

ScalarPieces ==
  {ScalarPiece("", <<c>>) : c \in {"x", "'", "{", "}", "0"}}
  \cup {ScalarPiece("a", <<"$", "{", "{", "a", "}", "}">>),
        ScalarPiece("b", <<"$", "{", "{", " ", "b", " ", "}", "}">>)}

FormatPieces ==
  {<<"{", "0", "}">>, <<"{", "1", "}">>, <<"{", "0", ":", "x", "}">>, <<"{", "0", ":", "}">>,
   <<"{", "{">>, <<"}", "}">>, <<"x">>, <<"{">>, <<"}">>}

\* the texts of pieces joined
RECURSIVE joinedTexts(_, _)
joinedTexts(texts, k) == IF k > Len(texts) THEN <<>> ELSE texts[k] \o joinedTexts(texts, k + 1)

\* the values the named contexts a and b evaluate to, as strings
ContextValues ==
  {[n \in {"a", "b"} |-> IF n = "a" THEN v[1] ELSE v[2]] :
     v \in {<< <<"1">>, <<>> >>, << <<"{", "0", "}">>, <<"'", "}">> >>}}

\* the expression an author writes to call format with the format string and the
\* named contexts names
formatCall(format, names) ==
  <<"f", "o", "r", "m", "a", "t", "(", "'">> \o stringEscape(format) \o <<"'">>
  \o joinedTexts([k \in 1..Len(names) |-> <<",", " ", names[k]>>], 1) \o <<")">>

\* where the reading and the evaluation are
Formatter(source, at, pieces, raw, values, token) ==
  [source |-> source, at |-> at, pieces |-> pieces, raw |-> raw, values |-> values,
   token |-> token, format |-> <<>>, parameters |-> <<>>, index |-> 0, segments |-> <<>>,
   error |-> "", result |-> <<>>, rounds |-> 0, lbrace |-> -1, rbrace |-> -1]

FormatInit ==
  /\ \E values \in ContextValues :
       \/ \E pieces \in SeqsUpTo(ScalarPieces, MaxPieces) :
            formatter = Formatter("scalar", "new", pieces,
                                  joinedTexts([k \in 1..Len(pieces) |-> pieces[k].text], 1), values,
                                  ScalarToken("none", <<>>, ""))
       \/ \E texts \in SeqsUpTo(FormatPieces, MaxFormatPieces),
             names \in {<<"a">>, <<"a", "b">>} :
            formatter = Formatter("call", "token", <<>>, <<>>, values,
                                  ScalarToken("basic-expression",
                                              formatCall(joinedTexts(texts, 1), names), ""))
  /\ collector = <<>>
  /\ mappingToken = <<>>
  /\ schemaDef = <<>>
  /\ exprText = <<>>
  /\ lexer = <<>>
  /\ parser = <<>>
  /\ parsePhase = "idle"
  /\ argv = <<>>
  /\ cli = <<>>
  /\ maxBytes = 0
  /\ maxDepth = 0
  /\ currentBytes = 0
  /\ currentDepth = 0
  /\ thrown = "none"
  /\ lastOp = "new"
  /\ lastAmount = 0
  /\ prevBytes = 0
  /\ prevDepth = 0
  /\ EvalIdle
  /\ UnravelIdle
  /\ ReaderIdle
  /\ ExprIdle
  /\ TokenIdle

FormatReturn(f) ==
  /\ formatter' = f
  /\ UNCHANGED <<collector, mappingToken, schemaDef, parseVars, cliVars, memVars, evalVars,
                 unravelVars, readerVars, exprVars, tokenVars>>

\* reader.parseScalar(token, allowedContext)
ParseScalar ==
  /\ formatter.at = "new"
  /\ FormatReturn([formatter EXCEPT !.at = "token", !.token = parseScalarOf(formatter.raw)])

\* the start of the evaluation of a basic expression token: the tree is made, and
\* of a format call the format string is evaluated
evaluateNode(f, node, format) ==
  IF node.type = "NamedContext"
  THEN [f EXCEPT !.at = "done", !.result = f.values[node.name]]
  ELSE [f EXCEPT !.format = format,
                 !.parameters = [k \in 1..(Len(node.parameters) - 1) |->
                                   node.parameters[k + 1].name],
                 !.at = IF 0 < Len(format) THEN "loop" ELSE "scanned"]

\* the evaluation of the tree createExpressionTree made
evaluateParsed(f, tree) ==
  IF tree.error.kind # "none" THEN formatThrow(f, tree.error.kind)
  ELSE evaluateNode(f, tree.result[1], literalChars(f.token.value, 8))

evaluateStart(f) == evaluateParsed(f, createTreeNext(Expression(f.token.value, 0), ParseContext))

EvaluateStart ==
  /\ formatter.at = "token"
  /\ formatter.token.kind = "basic-expression"
  /\ FormatReturn(evaluateStart(formatter))

\* one round of the loop of Format.evaluateCore
FormatRound ==
  /\ formatter.at = "loop"
  /\ formatter.rounds < MaxRounds
  /\ LET f == [formatRound(formatter) EXCEPT !.rounds = @ + 1]
     IN  FormatReturn(IF f.at = "loop" /\ f.index >= Len(f.format)
                      THEN [f EXCEPT !.at = "scanned"] ELSE f)

\* result.build()
FormatBuild ==
  /\ formatter.at = "scanned"
  /\ FormatReturn(IF build(formatter, 1) = <<>>
                  THEN formatThrow(formatter, "format specifiers are not valid")
                  ELSE [formatter EXCEPT !.at = "done", !.result = build(formatter, 1)[1]])

FormatNext ==
  \/ ParseScalar
  \/ EvaluateStart
  \/ FormatRound
  \/ FormatBuild

SpecFormat == FormatInit /\ [][FormatNext]_vars

\* the scalar read is made of literal text and expressions, or of several expressions
ScalarWithExpressions ==
  /\ formatter.source = "scalar"
  /\ formatter.at # "new"
  /\ Len(formatter.pieces) >= 2
  /\ \E k \in 1..Len(formatter.pieces) : formatter.pieces[k].name # ""

\* the text of the scalar with every expression replaced by the string of its value
ExpectedText ==
  joinedTexts([k \in 1..Len(formatter.pieces) |->
                 IF formatter.pieces[k].name = "" THEN formatter.pieces[k].text
                 ELSE formatter.values[formatter.pieces[k].name]], 1)

\* C33: for a scalar made of literal text and one or more expression segments,
\* parseScalar produces a single format(...) expression; its evaluation fails
\* nowhere and yields the literal text unchanged, the characters ', { and } in it
\* included, with each expression replaced in order by the string of its value
C33_FormatRoundTrip ==
  ScalarWithExpressions =>
    /\ formatter.token.kind = "basic-expression"
    /\ formatter.token.error = ""
    /\ SubSeq(formatter.token.value, 1, 7) = <<"f", "o", "r", "m", "a", "t", "(">>
    /\ formatter.at # "failed"
    /\ formatter.at = "loop" => formatter.rounds < MaxRounds
    /\ formatter.at = "done" => formatter.result = ExpectedText

\* a scalar holding a quote, both braces and an expression was read and evaluated
C33_Witness ==
  /\ ScalarWithExpressions
  /\ formatter.at = "done"
  /\ \A c \in {"'", "{", "}"} :
       \E k \in 1..Len(formatter.pieces) : formatter.pieces[k] = ScalarPiece("", <<c>>)
  /\ formatter.result = ExpectedText

\* C36: evaluating format terminates for every format string and argument list:
\* the scan index strictly increases on every iteration of the parsing loop, and
\* the closing brace found for a placeholder, with or without a format
\* specifier, lies behind the opening brace of that placeholder
C36_ScanIndexIncreases ==
  [][formatter.at = "loop" =>
       /\ formatter'.at = "loop" => formatter'.index > formatter.index
       /\ formatter'.lbrace # formatter.lbrace \/ formatter'.rbrace # formatter.rbrace
            => formatter'.rbrace > formatter'.lbrace]_vars

\* C34: with expand = true each expression token is evaluated at most once per
\* traversal: behind an evaluated expression frame the cursor is in the value the
\* expression produced, never in the same expression token again, and no
\* operation of the unraveler is broken off by an unexpected state
C34_DescendsIntoProducedValue ==
  allExpand =>
    /\ \A i \in 1..(Len(stack) - 1) :
         stack[i].value.type = "basic-expression" => stack[i + 1].value # stack[i].value
    /\ thrown # "unexpected-state"

\* the sum of the columns of _depths from the k-th on
RECURSIVE sumOfDepths(_, _)
sumOfDepths(depths, k) ==
  IF k > Len(depths) THEN 0 ELSE depths[k] + sumOfDepths(depths, k + 1)

\* the step is the evaluate of a node that reports its total size (trimDepth),
\* with columns deeper than the node's
ReportsTotalSize ==
  /\ evCount' = evCount + 1
  /\ Len(evDepths') > evLevel' + 1
  /\ \E coreBytes \in CoreBytesChoices, raw \in BOOLEAN, conversionBytes \in ConversionBytesChoices :
       LET e == evaluateCharges([depths |-> evDepths, maxActive |-> evMaxActiveDepth,
                                 total |-> evTotalBytes, exc |-> "none"],
                                evLevel', coreBytes, TRUE, raw, conversionBytes)
       IN  /\ evDepths' = e.depths
           /\ evMaxActiveDepth' = e.maxActive
           /\ evTotalBytes' = e.total
           /\ evThrown' = e.exc

\* C37: at all times the evaluator's tracked total equals the sum of its
\* per-depth columns, the instant a charge is rejected included; and when a
\* node at depth d reports its total size every column deeper than d is zero
\* afterwards, and the total is the sum of the columns up to d
C37_TotalIsSumOfLivePath ==
  /\ [](evTotalBytes = sumOfDepths(evDepths, 1))
  /\ [](\A i \in 1..Len(evDepths) : i > evMaxActiveDepth + 1 => evDepths[i] = 0)
  /\ [][ReportsTotalSize =>
          /\ \A i \in 1..Len(evDepths') : i > evLevel' + 1 => evDepths'[i] = 0
          /\ evTotalBytes' = sumOfDepths(SubSeq(evDepths', 1, evLevel' + 1), 1)]_vars

\* a node reported its total size after deeper nodes had been charged: columns
\* deeper than the live path exist, and the total is that of the live path
C37_Witness ==
  /\ evThrown = "none"
  /\ evCount >= 3
  /\ Len(evDepths) > evMaxActiveDepth + 2
  /\ evTotalBytes > 0
  /\ evTotalBytes = sumOfDepths(SubSeq(evDepths, 1, evMaxActiveDepth + 1), 1)

(***************************************************************************)
(* MappingToken: the pairs and the object capability                       *)
(***************************************************************************)
MaxMapPairs == 3

\* the properties kept on a function object: the names it has, and their values
HiddenProperties(has, dictionaryPairs, dictionaryIndexLookup) ==
  [has |-> has, dictionaryPairs |-> dictionaryPairs, dictionaryIndexLookup |-> dictionaryIndexLookup]

\* new MappingToken(file, line, col): no pairs, and the two closures
\* _getHiddenProperty and _setHiddenProperty, each a function object of its own
MappingToken ==
  [at |-> "ready", map |-> <<>>,
   getter |-> HiddenProperties({}, <<>>, <<>>),
   setter |-> HiddenProperties({}, <<>>, <<>>),
   op |-> "new", key |-> "", has |-> FALSE, value |-> "undefined", keys |-> <<>>, count |-> 0]

\* the token t after the call op with the argument key: what the call before it
\* returned is forgotten
returned(t, op, key) ==
  [t EXCEPT !.op = op, !.key = key, !.has = FALSE, !.value = "undefined", !.keys = <<>>,
            !.count = 0]

\* this._getHiddenProperty(propertyName, createDefaultValue): the property is
\* looked up on, and created on, the function this._getHiddenProperty
getHiddenProperty(t, propertyName) ==
  IF propertyName \in t.getter.has THEN t
  ELSE [t EXCEPT !.getter.has = @ \cup {propertyName}, !.getter[propertyName] = <<>>]

\* this._setHiddenProperty(propertyName, value): the property is set on the
\* function this._setHiddenProperty
setHiddenProperty(t, propertyName, value) ==
  [t EXCEPT !.setter.has = @ \cup {propertyName}, !.setter[propertyName] = value]

\* MappingToken.clearDictionary
clearDictionary(t) ==
  setHiddenProperty(setHiddenProperty(t, "dictionaryPairs", <<>>), "dictionaryIndexLookup", <<>>)

\* MappingToken.getDictionaryPairs and getDictionaryIndexLookup, after the call
\* that created the property where it was missing
getDictionaryPairs(t) == t.getter.dictionaryPairs
getDictionaryIndexLookup(t) == t.getter.dictionaryIndexLookup

\* indexLookup[upperKey] = index
withIndex(indexLookup, upperKey, index) ==
  [k \in DOMAIN indexLookup \cup {upperKey} |-> IF k = upperKey THEN index ELSE indexLookup[k]]

StringKeyValuePair(key, value) == [key |-> key, value |-> value]

\* the loop of initializeDictionary over this.map from the k-th pair on
RECURSIVE buildDictionary(_, _)
buildDictionary(t, k) ==
  IF k > Len(t.map) THEN t
  ELSE IF t.map[k].key.type = "string"
          /\ toUpperCase(t.map[k].key.lit) \notin DOMAIN getDictionaryIndexLookup(t)
  THEN buildDictionary(
         [t EXCEPT !.getter.dictionaryIndexLookup =
                     withIndex(@, toUpperCase(t.map[k].key.lit), Len(getDictionaryPairs(t))),
                   !.getter.dictionaryPairs =
                     Append(@, StringKeyValuePair(t.map[k].key.lit, t.map[k].value))],
         k + 1)
  ELSE buildDictionary(t, k + 1)

\* MappingToken.initializeDictionary
initializeDictionary(t) ==
  LET asked == getHiddenProperty(t, "dictionaryPairs")
  IN  IF Len(getDictionaryPairs(asked)) > 0 THEN asked
      ELSE buildDictionary(getHiddenProperty(asked, "dictionaryIndexLookup"), 1)

\* MappingToken.add
mappingAdd(t, key, value) == clearDictionary([t EXCEPT !.map = Append(@, Pair(key, value))])

\* MappingToken.remove: this.map.splice(index, 1)
mappingRemove(t, index) ==
  clearDictionary([t EXCEPT !.map = SubSeq(@, 1, index) \o SubSeq(@, index + 2, Len(@))])

\* the lookups, on the token after initializeDictionary
hasObjectKeyOf(t, key) == toUpperCase(key) \in DOMAIN getDictionaryIndexLookup(t)

getObjectKeysOf(t) == [k \in 1..Len(getDictionaryPairs(t)) |-> getDictionaryPairs(t)[k].key]

getObjectKeyCountOf(t) == Len(getDictionaryPairs(t))

getObjectValueOf(t, key) ==
  IF toUpperCase(key) \notin DOMAIN getDictionaryIndexLookup(t) THEN "undefined"
  ELSE getDictionaryPairs(t)[getDictionaryIndexLookup(t)[toUpperCase(key)] + 1].value

\* the keys and the values of the sample mappings, and the keys looked up
MappingKeys == {StrTok("name"), StrTok("Name"), StrTok("run"), ExprTok("e")}
MappingValues == {"v1", "v2"}
LookupKeys == {"name", "Name", "run", "uses"}

MappingInit ==
  /\ mappingToken = [at |-> "new"]
  /\ collector = <<>>
  /\ formatter = <<>>
  /\ schemaDef = <<>>
  /\ exprText = <<>>
  /\ lexer = <<>>
  /\ parser = <<>>
  /\ parsePhase = "idle"
  /\ argv = <<>>
  /\ cli = <<>>
  /\ maxBytes = 0
  /\ maxDepth = 0
  /\ currentBytes = 0
  /\ currentDepth = 0
  /\ thrown = "none"
  /\ lastOp = "new"
  /\ lastAmount = 0
  /\ prevBytes = 0
  /\ prevDepth = 0
  /\ EvalIdle
  /\ UnravelIdle
  /\ ReaderIdle
  /\ ExprIdle
  /\ TokenIdle

MappingReturn(t) ==
  /\ mappingToken' = t
  /\ UNCHANGED <<collector, formatter, schemaDef, parseVars, cliVars, memVars, evalVars,
                 unravelVars, readerVars, exprVars, tokenVars>>

\* new MappingToken(file, line, col)
NewMapping ==
  /\ mappingToken = [at |-> "new"]
  /\ MappingReturn(MappingToken)

\* mapping.add(key, value)
MappingAdd ==
  /\ mappingToken.at = "ready"
  /\ Len(mappingToken.map) < MaxMapPairs
  /\ \E key \in MappingKeys, value \in MappingValues :
       MappingReturn(returned(mappingAdd(mappingToken, key, value), "add", ""))

\* mapping.remove(index)
MappingRemove ==
  /\ mappingToken.at = "ready"
  /\ \E index \in 0..(Len(mappingToken.map) - 1) :
       MappingReturn(returned(mappingRemove(mappingToken, index), "remove", ""))

\* mapping.hasObjectKey(key)
HasObjectKey ==
  /\ mappingToken.at = "ready"
  /\ \E key \in LookupKeys :
       LET t == initializeDictionary(mappingToken)
       IN  MappingReturn([returned(t, "hasObjectKey", key) EXCEPT !.has = hasObjectKeyOf(t, key)])

\* mapping.getObjectValue(key)
GetObjectValue ==
  /\ mappingToken.at = "ready"
  /\ \E key \in LookupKeys :
       LET t == initializeDictionary(mappingToken)
       IN  MappingReturn([returned(t, "getObjectValue", key)
                            EXCEPT !.value = getObjectValueOf(t, key)])

\* mapping.getObjectKeys()
GetObjectKeys ==
  /\ mappingToken.at = "ready"
  /\ LET t == initializeDictionary(mappingToken)
     IN  MappingReturn([returned(t, "getObjectKeys", "") EXCEPT !.keys = getObjectKeysOf(t)])

\* mapping.getObjectKeyCount()
GetObjectKeyCount ==
  /\ mappingToken.at = "ready"
  /\ LET t == initializeDictionary(mappingToken)
     IN  MappingReturn([returned(t, "getObjectKeyCount", "")
                          EXCEPT !.count = getObjectKeyCountOf(t)])

MappingNext ==
  \/ NewMapping
  \/ MappingAdd
  \/ MappingRemove
  \/ HasObjectKey
  \/ GetObjectValue
  \/ GetObjectKeys
  \/ GetObjectKeyCount

SpecMapping == MappingInit /\ [][MappingNext]_vars

\* the pairs of the mapping that have a string key, a key that repeats an earlier
\* one in another case left out
CurrentPairs ==
  SelectSeq([k \in 1..Len(mappingToken.map) |->
               [key |-> mappingToken.map[k].key, value |-> mappingToken.map[k].value,
                first |-> \A j \in 1..(k - 1) :
                            \/ mappingToken.map[j].key.type # "string"
                            \/ toUpperCase(mappingToken.map[j].key.lit)
                                 # toUpperCase(mappingToken.map[k].key.lit)]],
            LAMBDA p : p.key.type = "string" /\ p.first)

\* the pairs of the mapping under the key looked up
PairsUnderKey ==
  SelectSeq(CurrentPairs, LAMBDA p : toUpperCase(p.key.lit) = toUpperCase(mappingToken.key))

\* C38: the object-capability lookups of a MappingToken (hasObjectKey,
\* getObjectValue, getObjectKeys, getObjectKeyCount) always reflect the
\* mapping's current pairs, also when add or remove was called after a lookup
\* had built the case-insensitive index
C38_LookupsReflectCurrentPairs ==
  mappingToken # <<>> /\ mappingToken # [at |-> "new"] =>
    /\ mappingToken.op = "hasObjectKey" => mappingToken.has = (PairsUnderKey # <<>>)
    /\ mappingToken.op = "getObjectValue" =>
         mappingToken.value = IF PairsUnderKey = <<>> THEN "undefined" ELSE PairsUnderKey[1].value
    /\ mappingToken.op = "getObjectKeys" =>
         mappingToken.keys = [k \in 1..Len(CurrentPairs) |-> CurrentPairs[k].key.lit]
    /\ mappingToken.op = "getObjectKeyCount" => mappingToken.count = Len(CurrentPairs)

(***************************************************************************)
(* Definition: the constructor of the base class of the schema definitions *)
(***************************************************************************)
MaxDefinitionPairs == 2
MaxContextItems == 2

CONTEXT == "context"
DESCRIPTION == "description"

\* String.prototype.toUpperCase, a character at a time
upperOfChar(c) ==
  CASE c = "g" -> "G"
    [] c = "f" -> "F"
    [] OTHER -> c

toUpperChars(string) == [k \in 1..Len(string) |-> upperOfChar(string[k])]

\* what the constructor has done: the definition mapping with the pairs it
\* removed taken out, the two contexts, and the error it threw
Constructing(definition) ==
  [definition |-> definition, readerContext |-> <<>>, evaluatorContext |-> <<>>, error |-> ""]

\* "Remove min/max parameter info"
modifiedItemStr(itemStr) ==
  IF indexOfChar(itemStr, "(", 0) > 0
  THEN substrOf(itemStr, 0, indexOfChar(itemStr, "(", 0) + 1) \o <<")">>
  ELSE itemStr

\* the loop "for (let j = 0; i < context.count; j++)" of the constructor
RECURSIVE contextItems(_, _, _, _, _, _)
contextItems(d, context, i, j, seenReaderContext, seenEvaluatorContext) ==
  IF ~(i < Len(context.kids)) THEN d
  ELSE IF j >= Len(context.kids) THEN [d EXCEPT !.error = "TypeError"]
  ELSE IF context.kids[j + 1].type # "string" THEN [d EXCEPT !.error = "unexpected-type"]
  ELSE LET itemStr == context.kids[j + 1].lit
       IN  IF toUpperChars(itemStr) \in seenReaderContext
           THEN [d EXCEPT !.error = "duplicate"]
           ELSE IF toUpperChars(modifiedItemStr(itemStr)) \in seenEvaluatorContext
           THEN [d EXCEPT !.readerContext = Append(@, itemStr), !.error = "duplicate"]
           ELSE contextItems(
                  [d EXCEPT !.readerContext = Append(@, itemStr),
                            !.evaluatorContext = Append(@, modifiedItemStr(itemStr))],
                  context, i, j + 1,
                  seenReaderContext \cup {toUpperChars(itemStr)},
                  seenEvaluatorContext \cup {toUpperChars(modifiedItemStr(itemStr))})

\* definition.remove(i)
withoutPair(d, i) ==
  [d EXCEPT !.definition = SubSeq(@, 1, i) \o SubSeq(@, i + 2, Len(@))]

\* the context items read with the token the case CONTEXT takes for the
\* sequence: definition.get(i).key.assertSequence(...)
contextCase(d, i) ==
  IF d.definition[i + 1].key.type # "sequence" THEN [d EXCEPT !.error = "unexpected-type"]
  ELSE contextItems(withoutPair(d, i), d.definition[i + 1].key, i, 0, {}, {})

\* the loop "for (let i = 0; i < definition.count; )" of the constructor
RECURSIVE definitionKeys(_, _)
definitionKeys(d, i) ==
  IF d.error # "" \/ ~(i < Len(d.definition)) THEN d
  ELSE IF d.definition[i + 1].key.type # "string" THEN [d EXCEPT !.error = "unexpected-type"]
  ELSE IF d.definition[i + 1].key.lit = CONTEXT THEN definitionKeys(contextCase(d, i), i)
  ELSE IF d.definition[i + 1].key.lit = DESCRIPTION THEN definitionKeys(withoutPair(d, i), i)
  ELSE definitionKeys(d, i + 1)

\* new Definition(definition), of any of its subclasses
newDefinition(definition) == definitionKeys(Constructing(definition), 0)

\* the items of the sample contexts: named contexts and function signatures
ContextItemTexts ==
  {<<"g">>, <<"G">>, <<"f", "(", "1", ",", "2", ")">>, <<"f", "(", "0", ")">>}

\* the pairs of the sample definitions
DefinitionPairs ==
  {Pair(StrTok(CONTEXT), SeqTok(items)) :
     items \in SeqsUpTo({Tok("string", text, <<>>) : text \in ContextItemTexts}, MaxContextItems)}
  \cup {Pair(StrTok(DESCRIPTION), StrTok("d")), Pair(StrTok("string"), MapTok(<<>>))}

DefinitionInit ==
  /\ \E definition \in SeqsUpTo(DefinitionPairs, MaxDefinitionPairs) :
       schemaDef = [at |-> "new", given |-> definition]
  /\ collector = <<>>
  /\ formatter = <<>>
  /\ mappingToken = <<>>
  /\ exprText = <<>>
  /\ lexer = <<>>
  /\ parser = <<>>
  /\ parsePhase = "idle"
  /\ argv = <<>>
  /\ cli = <<>>
  /\ maxBytes = 0
  /\ maxDepth = 0
  /\ currentBytes = 0
  /\ currentDepth = 0
  /\ thrown = "none"
  /\ lastOp = "new"
  /\ lastAmount = 0
  /\ prevBytes = 0
  /\ prevDepth = 0
  /\ EvalIdle
  /\ UnravelIdle
  /\ ReaderIdle
  /\ ExprIdle
  /\ TokenIdle

\* new Definition(definition)
ConstructDefinition ==
  /\ schemaDef.at = "new"
  /\ schemaDef' = [at |-> "constructed", given |-> schemaDef.given,
                   made |-> newDefinition(schemaDef.given)]
  /\ UNCHANGED <<collector, formatter, mappingToken, parseVars, cliVars, memVars, evalVars,
                 unravelVars, readerVars, exprVars, tokenVars>>

DefinitionNext == ConstructDefinition

SpecDefinition == DefinitionInit /\ [][DefinitionNext]_vars

\* the items of the first context sequence of the definition given
GivenContext ==
  LET at == CHOOSE k \in 1..Len(schemaDef.given) :
              /\ schemaDef.given[k].key.lit = CONTEXT
              /\ \A j \in 1..(k - 1) : schemaDef.given[j].key.lit # CONTEXT
  IN  [k \in 1..Len(schemaDef.given[at].value.kids) |-> schemaDef.given[at].value.kids[k].lit]

\* the definition given has one context sequence
HasContext ==
  /\ schemaDef # <<>>
  /\ Cardinality({k \in 1..Len(schemaDef.given) : schemaDef.given[k].key.lit = CONTEXT}) = 1

\* an item of the context repeats an earlier one, the case left aside
ContextRepeats ==
  \E j, k \in 1..Len(GivenContext) :
    /\ j < k
    /\ \/ toUpperChars(GivenContext[j]) = toUpperChars(GivenContext[k])
       \/ toUpperChars(modifiedItemStr(GivenContext[j]))
            = toUpperChars(modifiedItemStr(GivenContext[k]))

\* C39: constructing a definition that has a context sequence ends and yields
\* a readerContext equal to the listed items in order and an evaluatorContext
\* equal to the same items with the min/max parameters of a function removed;
\* an item that repeats an earlier one, whatever the case, is rejected with an
\* error
C39_ContextsOfDefinition ==
  HasContext /\ schemaDef.at = "constructed" =>
    IF ContextRepeats THEN schemaDef.made.error = "duplicate"
    ELSE /\ schemaDef.made.error = ""
         /\ schemaDef.made.readerContext = GivenContext
         /\ schemaDef.made.evaluatorContext
              = [k \in 1..Len(GivenContext) |-> modifiedItemStr(GivenContext[k])]

====
